---------------------------- MODULE Spec2Model ----------------------------
(***************************************************************************)
(* A model of the forecasting / aggregation engine of                      *)
(* sales_prediction_system1.py: project intake (decay model), the          *)
(* cash-flow, material, labor and administrative generators, the monthly   *)
(* budget ledger and the cash-runway projection.                           *)
(*                                                                         *)
(* Conventions.                                                            *)
(*  - Money is an integer number of hundredths of the unit (0.01 万元):     *)
(*    every stored amount is round(x, 2) in the source.  round(x, 2) is    *)
(*    Round2 below (nearest hundredth; binary floating-point error of the  *)
(*    source's float arithmetic is not modelled).                          *)
(*  - Payment ratios are percentages (0..100), material ratios are in      *)
(*    thousandths (0.30 is 300), decay factors in millionths.              *)
(*  - A date is a record [year, month, day]; a string is the sequence of   *)
(*    its character codes, so that Python's string order is LexLess.       *)
(*  - Record fields carry English names of the DataFrame columns: each     *)
(*    definition's comment gives the column it stands for.                 *)
(***************************************************************************)
EXTENDS Integers, Sequences, FiniteSets, TLC

VARIABLES
    projects,         \* data_manager['income'].data: the project rows, in order
    labor,            \* data_manager['labor'].data
    admin,            \* data_manager['admin'].data
    occasional_income,  \* data_manager['occasional']['occasional_income']
    occasional_expense, \* data_manager['occasional']['occasional_expense']
    material_ratios,  \* st.session_state.material_ratios
    income_aliased,   \* the IncomeManager holds the session's ratio dict itself
    current_cash_balance, \* st.session_state.current_cash_balance
    decay_lambda,     \* the input 时间衰减系数 of 系统配置, in ten-thousandths
    base_date,        \* the input 预测基准日期 of 系统配置
    manual_corrected, \* history: id -> the 纠偏后收入 the user last entered for it
    view              \* what the last script run rendered

vars == <<projects, labor, admin, occasional_income, occasional_expense,
          material_ratios, income_aliased, current_cash_balance,
          decay_lambda, base_date, manual_corrected, view>>

data_vars == <<projects, labor, admin, occasional_income, occasional_expense,
               manual_corrected>>

config_vars == <<material_ratios, income_aliased, current_cash_balance,
                 decay_lambda, base_date>>

--------------------------------------------------------------------------
(* Bounds of the model                                                     *)

\* Records (projects, cost records, occasional entries) in a snapshot.
MaxRecords == 3

\* Calendar years covered by the dates of the single-record specifications.
YearSpan == 3

\* Distinct money inputs offered to the single-record specifications.
MaxAmounts == 2

--------------------------------------------------------------------------
(* Arithmetic helpers                                                      *)

Min(a, b) == IF a <= b THEN a ELSE b

Max(a, b) == IF a >= b THEN a ELSE b

Abs(a) == IF a < 0 THEN -a ELSE a

\* round(num / den) for num >= 0, den > 0, to the nearest integer, a tie to
\* the even neighbour: Python's round(x, 2) on a value x = num/den hundredths.
Round2(num, den) ==
    LET q == num \div den
        r == num % den
    IN  IF 2 * r > den THEN q + 1
        ELSE IF 2 * r < den THEN q
        ELSE IF q % 2 = 0 THEN q ELSE q + 1

RECURSIVE SumSeq(_)
\* Series.sum(): the sum of a sequence of numbers.
SumSeq(s) == IF s = <<>> THEN 0 ELSE s[1] + SumSeq(Tail(s))

--------------------------------------------------------------------------
(* Calendar: datetime / pandas.Timestamp / pandas.DateOffset               *)

Date(y, m, d) == [year |-> y, month |-> m, day |-> d]

IsLeap(y) == (y % 4 = 0 /\ y % 100 # 0) \/ y % 400 = 0

DaysInMonth(y, m) ==
    IF m \in {1, 3, 5, 7, 8, 10, 12} THEN 31
    ELSE IF m \in {4, 6, 9, 11} THEN 30
    ELSE IF IsLeap(y) THEN 29 ELSE 28

RECURSIVE DaysBeforeMonth(_, _)
DaysBeforeMonth(y, m) ==
    IF m = 1 THEN 0 ELSE DaysBeforeMonth(y, m - 1) + DaysInMonth(y, m - 1)

\* The proleptic Gregorian ordinal of a date (date.toordinal()).
Ordinal(dt) ==
    LET y == dt.year - 1
    IN  365 * y + y \div 4 - y \div 100 + y \div 400
        + DaysBeforeMonth(dt.year, dt.month) + dt.day

\* a <= b on timestamps
DateLE(a, b) == Ordinal(a) <= Ordinal(b)

\* (a - b).days
DaysBetween(a, b) == Ordinal(a) - Ordinal(b)

\* AddMonths with the day of month capped at 28, whatever the target month
AddMonths28(dt, n) ==
    LET idx == dt.year * 12 + (dt.month - 1) + n
    IN  Date(idx \div 12, (idx % 12) + 1, Min(dt.day, 28))

\* ts + pd.DateOffset(months=n): the day of month is kept when the target
\* month has it and is otherwise the target month's last day.
AddMonths(dt, n) ==
    LET idx == dt.year * 12 + (dt.month - 1) + n
        y   == idx \div 12
        m   == (idx % 12) + 1
    IN  Date(y, m, Min(dt.day, DaysInMonth(y, m)))

\* ts + pd.DateOffset(years=n)
AddYears(dt, n) ==
    Date(dt.year + n, dt.month, Min(dt.day, DaysInMonth(dt.year + n, dt.month)))

\* ts - pd.DateOffset(days=1)
SubOneDay(dt) ==
    IF dt.day > 1 THEN Date(dt.year, dt.month, dt.day - 1)
    ELSE LET p == AddMonths(Date(dt.year, dt.month, 1), -1)
         IN  Date(p.year, p.month, DaysInMonth(p.year, p.month))

\* ts.replace(day=1)
ReplaceDay1(dt) == Date(dt.year, dt.month, 1)

--------------------------------------------------------------------------
(* Month keys: 'YYYY-MM' strings                                           *)

\* ord('0'), ord('-') and ord('Q')
Char0 == 48

CharDash == 45

CharQ == 81

RECURSIVE Digits(_)
\* str(n) for n >= 0: the decimal digits, no padding
Digits(n) ==
    IF n < 10 THEN <<Char0 + n>>
    ELSE Digits(n \div 10) \o <<Char0 + (n % 10)>>

\* Pad02 without the padding: f"{m}"
Pad02Unpadded(m) == Digits(m)

\* f"{m:02d}"
Pad02(m) == IF m < 10 THEN <<Char0>> \o Digits(m) ELSE Digits(m)

\* f"{d.year}-{d.month:02d}"
MonthKey(dt) == Digits(dt.year) \o <<CharDash>> \o Pad02(dt.month)

\* Series.dt.to_period('M').astype(str): 'YYYY-MM', the year on four digits
PeriodKey(dt) ==
    LET y == Digits(dt.year)
    IN  [i \in 1..(4 - Len(y)) |-> Char0] \o y \o <<CharDash>> \o Pad02(dt.month)

RECURSIVE DigitsValue(_)
\* int(s) of a string of digits
DigitsValue(s) ==
    IF s = <<>> THEN 0
    ELSE 10 * DigitsValue(SubSeq(s, 1, Len(s) - 1)) + (s[Len(s)] - Char0)

\* pd.to_datetime('YYYY-MM'): the first day of that month
ParseMonthKey(k) ==
    LET dash == CHOOSE i \in 1..Len(k) : k[i] = CharDash
    IN  Date(DigitsValue(SubSeq(k, 1, dash - 1)),
             DigitsValue(SubSeq(k, dash + 1, Len(k))), 1)

RECURSIVE LexLess(_, _)
\* a < b on Python strings (code point order, a proper prefix first)
LexLess(a, b) ==
    IF b = <<>> THEN FALSE
    ELSE IF a = <<>> THEN TRUE
    ELSE IF a[1] # b[1] THEN a[1] < b[1]
    ELSE LexLess(Tail(a), Tail(b))

RECURSIVE SortedStrings(_)
\* sorted(list(S)) for a set S of strings
SortedStrings(S) ==
    IF S = {} THEN <<>>
    ELSE LET m == CHOOSE x \in S : \A y \in S \ {x} : LexLess(x, y)
         IN  <<m>> \o SortedStrings(S \ {m})

RECURSIVE SortByMonthDescending(_)
\* SortByMonth with ascending=False
SortByMonthDescending(rows) ==
    IF rows = <<>> THEN <<>>
    ELSE LET i == CHOOSE n \in 1..Len(rows) : \A j \in 1..Len(rows) :
                      DateLE(ParseMonthKey(rows[j].month), ParseMonthKey(rows[n].month))
             rest == [j \in 1..(Len(rows) - 1) |-> IF j < i THEN rows[j] ELSE rows[j + 1]]
         IN  <<rows[i]>> \o SortByMonthDescending(rest)

RECURSIVE SortByMonth(_)
\* df.sort_values(on the month key parsed back to a date): rows whose month
\* keys are distinct, in chronological order
SortByMonth(rows) ==
    IF rows = <<>> THEN <<>>
    ELSE LET i == CHOOSE n \in 1..Len(rows) : \A j \in 1..Len(rows) :
                      DateLE(ParseMonthKey(rows[n].month), ParseMonthKey(rows[j].month))
             rest == [j \in 1..(Len(rows) - 1) |-> IF j < i THEN rows[j] ELSE rows[j + 1]]
         IN  <<rows[i]>> \o SortByMonth(rest)

\* groupby(key)[value].sum() read at key k: pairs is a sequence of <<key, value>>
GroupSum(pairs, k) ==
    SumSeq([i \in 1..Len(pairs) |-> IF pairs[i][1] = k THEN pairs[i][2] ELSE 0])

\* the keys of a groupby
GroupKeys(pairs) == {pairs[i][1] : i \in 1..Len(pairs)}

--------------------------------------------------------------------------
(* Project intake: the decay model                                         *)

\* datetime(2025, 12, 8): the base date both intake paths build
BaseDate == Date(2025, 12, 8)

\* value=0.0315 of the input 时间衰减系数 (λ), in ten-thousandths
DefaultDecayLambda == 315

\* MonthDiff from the elapsed days, thirty to the month, clamped at 0
MonthDiffByDays(delivery, base) ==
    LET days == DaysBetween(delivery, base)
    IN  IF days < 0 THEN 0 ELSE days \div 30

\* month_diff: calendar year/month difference, clamped at 0
MonthDiff(delivery, base) ==
    LET diff == (delivery.year - base.year) * 12 + (delivery.month - base.month)
    IN  IF diff < 0 THEN 0 ELSE diff

\* math.exp(-0.0315 * t) in millionths, t = 0..48
DecayTable ==
    <<1000000, 968991, 938943, 909828, 881615, 854277, 827787, 802118, 777245,
      753143, 729789, 707159, 685231, 663982, 643393, 623442, 604109, 585377,
      567225, 549635, 532592, 516077, 500074, 484567, 469541, 454981, 440872,
      427201, 413954, 401118, 388680, 376627, 364948, 353631, 342666, 332040,
      321744, 311767, 302099, 292731, 283654, 274858, 266335, 258076, 250074,
      242319, 234805, 227524, 220469>>

\* TimeDecay by the linear approximation 1 - 0.0315 * month_diff
TimeDecayLinear(month_diff) == 1000000 - 31500 * month_diff

\* time_decay = math.exp(-0.0315 * month_diff), in millionths
TimeDecay(month_diff) == DecayTable[month_diff + 1]

\* round(time_decay, 4), in ten-thousandths (column 时间衰减因子)
TimeDecay4(month_diff) == Round2(TimeDecay(month_diff), 100)

\* round(contract_amount * (close_rate / 100) * time_decay, 2) in hundredths:
\* contract (hundredths) * close_rate (percent) * decay (millionths) / 10^8,
\* evaluated in pieces that stay below 2^31.
ExpectedRevenue(contract, close_rate, month_diff) ==
    LET a   == contract * close_rate
        b   == TimeDecay(month_diff)
        a1  == a \div 1000
        a0  == a % 1000
        hi  == a1 * b
        h1  == hi \div 100000
        h0  == hi % 100000
        f   == h0 * 1000 + a0 * b
        q   == h1 + f \div 100000000
        r   == f % 100000000
    IN  IF r > 50000000 THEN q + 1
        ELSE IF r < 50000000 THEN q
        ELSE IF q % 2 = 0 THEN q ELSE q + 1

\* ensure_columns_compatibility: the ratio columns a table lacks
DefaultRatios == <<50, 40, 10>>

\* new_project of "计算并添加项目": the row a manual add appends.
\* id: 'ID'; name: 项目名称; delivery: 交付日期; contract: 合同金额;
\* close_rate: 保守成单率; line: 业务线; time_decay: 时间衰减因子;
\* expected: 预期收入; corrected: 纠偏后收入; first/second/final: the three
\* ratio columns; delivery_month: 交付月份; month_diff: 月份数; quarter: the
\* 季度 column generate_summary adds (<<>> while the row has none).
NewProject(id, name, delivery, contract, close_rate, line, manual_adjusted_income, ratios) ==
    LET month_diff == MonthDiff(delivery, BaseDate)
    IN  [id |-> id, name |-> name, delivery |-> delivery, contract |-> contract,
         close_rate |-> close_rate, line |-> line,
         time_decay |-> TimeDecay4(month_diff),
         expected |-> ExpectedRevenue(contract, close_rate, month_diff),
         corrected |-> manual_adjusted_income,
         first |-> ratios[1], second |-> ratios[2], final |-> ratios[3],
         delivery_month |-> MonthKey(delivery), month_diff |-> month_diff,
         quarter |-> <<>>]

\* one row of "导入收入预测数据": the derived columns an import fills in
ImportedProject(id, name, delivery, contract, close_rate, line, ratios) ==
    LET month_diff == MonthDiff(delivery, BaseDate)
        expected   == ExpectedRevenue(contract, close_rate, month_diff)
    IN  [id |-> id, name |-> name, delivery |-> delivery, contract |-> contract,
         close_rate |-> close_rate, line |-> line,
         time_decay |-> TimeDecay4(month_diff),
         expected |-> expected,
         corrected |-> expected,
         first |-> ratios[1], second |-> ratios[2], final |-> ratios[3],
         delivery_month |-> MonthKey(delivery), month_diff |-> month_diff,
         quarter |-> <<>>]

\* str(uuid.uuid4()): an id that is not in use (the least such number)
FreshId(used) ==
    CHOOSE n \in 1..(Cardinality(used) + 1) :
        n \notin used /\ \A k \in 1..(n - 1) : k \in used

\* the 'ID' column of a table
Ids(rows) == {rows[i].id : i \in 1..Len(rows)}

RECURSIVE ImportRows(_, _, _, _)
\* the rows "导入收入预测数据" appends for a file's rows: the derived columns,
\* an id for every row that has none (no ID column, or a blank cell, id 0)
\* and the default ratios when the file has no ratio columns.
\* used: the ids of the store, of the file and of the rows done so far
ImportRows(file_rows, has_id_column, has_ratio_columns, used) ==
    IF file_rows = <<>> THEN <<>>
    ELSE LET r  == file_rows[1]
             id == IF has_id_column /\ r.id # 0 THEN r.id ELSE FreshId(used)
             ratios == IF has_ratio_columns THEN r.ratios ELSE DefaultRatios
         IN  <<ImportedProject(id, r.name, r.delivery, r.contract, r.close_rate,
                               r.line, ratios)>>
             \o ImportRows(Tail(file_rows), has_id_column, has_ratio_columns,
                           used \cup {id})

--------------------------------------------------------------------------
(* IncomeManager                                                           *)

\* the columns generate_summary writes into self.data: 季度 is
\* str(year) + '-Q' + str(quarter) of the delivery date
SummaryColumns(rows) ==
    [i \in 1..Len(rows) |->
        [rows[i] EXCEPT !.quarter =
            Digits(rows[i].delivery.year) \o <<CharDash, CharQ>>
                \o Digits((rows[i].delivery.month - 1) \div 3 + 1)]]

\* the ratio table IncomeManager.__init__ falls back to
\* ("spectral" is 光谱设备/服务, "dosing" 配液设备, "automation" 自动化项目)
DefaultMaterialRatios ==
    [l \in {"spectral", "dosing", "automation"} |->
        IF l = "spectral" THEN 300 ELSE IF l = "dosing" THEN 350 ELSE 400]

\* the fallback ratio of a business line no table knows (0.30)
FallbackMaterialRatio == 300

\* self.material_ratios of the income manager
IncomeMaterialRatios ==
    IF income_aliased THEN material_ratios ELSE DefaultMaterialRatios

\* CashFlowEvents with the warranty payment computed from the second ratio
CashFlowEventsCopied(p) ==
    LET second_date == AddMonths(p.delivery, 1)
        final_date  == AddYears(p.delivery, 1)
    IN  << [name |-> p.name, kind |-> "first_payment", date |-> p.delivery,
            month |-> MonthKey(p.delivery),
            amount |-> Round2(p.corrected * p.first, 100),
            line |-> p.line, ratio |-> p.first],
           [name |-> p.name, kind |-> "second_payment", date |-> second_date,
            month |-> MonthKey(second_date),
            amount |-> Round2(p.corrected * p.second, 100),
            line |-> p.line, ratio |-> p.second],
           [name |-> p.name, kind |-> "warranty_payment", date |-> final_date,
            month |-> MonthKey(final_date),
            amount |-> Round2(p.corrected * p.second, 100),
            line |-> p.line, ratio |-> p.final] >>

\* the three rows generate_cash_flow_data appends for one project.
\* kind: 现金流类型 (首付款, 次付款, 质保金); date: 支付日期; month: 支付月份;
\* amount: 金额
CashFlowEvents(p) ==
    LET second_date == AddMonths(p.delivery, 1)
        final_date  == AddYears(p.delivery, 1)
    IN  << [name |-> p.name, kind |-> "first_payment", date |-> p.delivery,
            month |-> MonthKey(p.delivery),
            amount |-> Round2(p.corrected * p.first, 100),
            line |-> p.line, ratio |-> p.first],
           [name |-> p.name, kind |-> "second_payment", date |-> second_date,
            month |-> MonthKey(second_date),
            amount |-> Round2(p.corrected * p.second, 100),
            line |-> p.line, ratio |-> p.second],
           [name |-> p.name, kind |-> "warranty_payment", date |-> final_date,
            month |-> MonthKey(final_date),
            amount |-> Round2(p.corrected * p.final, 100),
            line |-> p.line, ratio |-> p.final] >>

RECURSIVE generate_cash_flow_data(_)
\* IncomeManager.generate_cash_flow_data over self.data
generate_cash_flow_data(rows) ==
    IF rows = <<>> THEN <<>>
    ELSE CashFlowEvents(rows[1]) \o generate_cash_flow_data(Tail(rows))

\* RatioWarning for a shortfall only
RatioWarningShortfall(p) == 10 * (100 - (p.first + p.second + p.final)) > 1

\* abs(total_ratio - 1.0) > 0.001 for the ratios of project p
RatioWarning(p) == 10 * Abs(p.first + p.second + p.final - 100) > 1

\* the st.warning calls of generate_cash_flow_data: the warned projects' positions
CashFlowWarnings(rows) == {i \in 1..Len(rows) : RatioWarning(rows[i])}

\* material_ratio of generate_material_cost_data for a business line
MaterialRatio(line, table) ==
    IF line \in DOMAIN table THEN table[line]
    ELSE IF line \in DOMAIN DefaultMaterialRatios THEN DefaultMaterialRatios[line]
    ELSE FallbackMaterialRatio

\* MaterialCostRow with the cost recognised in the delivery month
MaterialCostRowAtDelivery(p, table) ==
    [name |-> p.name, line |-> p.line,
     ratio |-> MaterialRatio(p.line, table),
     amount |-> Round2(p.corrected * MaterialRatio(p.line, table), 1000),
     month |-> MonthKey(p.delivery),
     date |-> p.delivery]

\* the row generate_material_cost_data appends for one project.
\* ratio: 物料支出比例 (thousandths); amount: 物料成本; month: 支出月份; date: 支出日期
MaterialCostRow(p, table) ==
    LET material_payment_date == AddMonths(p.delivery, -1)
    IN  [name |-> p.name, line |-> p.line,
         ratio |-> MaterialRatio(p.line, table),
         amount |-> Round2(p.corrected * MaterialRatio(p.line, table), 1000),
         month |-> MonthKey(material_payment_date),
         date |-> material_payment_date]

\* IncomeManager.generate_material_cost_data over self.data
generate_material_cost_data(rows, table) ==
    [i \in 1..Len(rows) |-> MaterialCostRow(rows[i], table)]

--------------------------------------------------------------------------
(* LaborCostManager and AdminCostManager                                   *)

RECURSIVE LaborMonthRows30(_, _)
\* LaborMonthRows with every month taken to have thirty days
LaborMonthRows30(row, current_date) ==
    IF ~DateLE(current_date, row.end) THEN <<>>
    ELSE LET last_day      == SubOneDay(AddMonths(current_date, 1))
             month_end     == IF ~DateLE(last_day, row.end) THEN row.end ELSE last_day
             actual_end    == IF DateLE(month_end, row.end) THEN month_end ELSE row.end
             days_for_cost == DaysBetween(actual_end, current_date) + 1
         IN  << [cost_type |-> row.cost_type, person |-> row.person,
                 amount |-> Round2(row.monthly_cost * days_for_cost, 30),
                 month |-> MonthKey(current_date),
                 start |-> row.start, end |-> row.end] >>
             \o LaborMonthRows30(row, AddMonths(current_date, 1))

RECURSIVE LaborMonthRows(_, _)
\* the while loop of LaborCostManager.generate_cost_data for one record,
\* from the month starting at current_date on.
\* amount: 成本金额; month: 支出月份; monthly_cost: 月度成本
LaborMonthRows(row, current_date) ==
    IF ~DateLE(current_date, row.end) THEN <<>>
    ELSE LET last_day      == SubOneDay(AddMonths(current_date, 1))
             month_end     == IF ~DateLE(last_day, row.end) THEN row.end ELSE last_day
             days_in_month == DaysBetween(AddMonths(current_date, 1), current_date)
             actual_end    == IF DateLE(month_end, row.end) THEN month_end ELSE row.end
             days_for_cost == DaysBetween(actual_end, current_date) + 1
         IN  << [cost_type |-> row.cost_type, person |-> row.person,
                 amount |-> Round2(row.monthly_cost * days_for_cost, days_in_month),
                 month |-> MonthKey(current_date),
                 start |-> row.start, end |-> row.end] >>
             \o LaborMonthRows(row, AddMonths(current_date, 1))

\* the rows of one labor record
LaborRows(row) == LaborMonthRows(row, ReplaceDay1(row.start))

RECURSIVE labor_generate_cost_data(_)
\* LaborCostManager.generate_cost_data over self.data
labor_generate_cost_data(rows) ==
    IF rows = <<>> THEN <<>>
    ELSE LaborRows(rows[1]) \o labor_generate_cost_data(Tail(rows))

RECURSIVE AdminPeriodRows(_, _, _, _)
\* the while loops of AdminCostManager.generate_cost_data: one row of
\* `amount` every `step` months from current_date while current_date <= end.
\* amount: the generated 月度成本 column; month: 支出月份; date: 支出日期
AdminPeriodRows(row, current_date, step, amount) ==
    IF ~DateLE(current_date, row.end) THEN <<>>
    ELSE << [expense_type |-> row.expense_type, item |-> row.item,
             amount |-> amount, month |-> MonthKey(current_date),
             date |-> current_date, frequency |-> row.frequency] >>
         \o AdminPeriodRows(row, AddMonths(current_date, step), step, amount)

\* AdminRows with the quarterly amount left at one month's cost
AdminRowsFlatQuarter(row) ==
    LET current_date == ReplaceDay1(row.start)
    IN  IF row.frequency = "monthly"
            THEN AdminPeriodRows(row, current_date, 1, row.monthly_cost)
        ELSE IF row.frequency = "quarterly"
            THEN AdminPeriodRows(row, current_date, 3, row.monthly_cost)
        ELSE IF row.frequency = "yearly"
            THEN << [expense_type |-> row.expense_type, item |-> row.item,
                     amount |-> row.monthly_cost * 12,
                     month |-> MonthKey(current_date),
                     date |-> current_date, frequency |-> row.frequency] >>
        ELSE <<>>

\* AdminRows with the yearly payment repeated every twelve months up to end
AdminRowsYearlyLoop(row) ==
    LET current_date == ReplaceDay1(row.start)
    IN  IF row.frequency = "monthly"
            THEN AdminPeriodRows(row, current_date, 1, row.monthly_cost)
        ELSE IF row.frequency = "quarterly"
            THEN AdminPeriodRows(row, current_date, 3, row.monthly_cost * 3)
        ELSE IF row.frequency = "yearly"
            THEN AdminPeriodRows(row, current_date, 12, row.monthly_cost * 12)
        ELSE <<>>

\* the rows of one administrative record, by its 付款频率
\* ("monthly" is 月度, "quarterly" 季度, "yearly" 年度)
AdminRows(row) ==
    LET current_date == ReplaceDay1(row.start)
    IN  IF row.frequency = "monthly"
            THEN AdminPeriodRows(row, current_date, 1, row.monthly_cost)
        ELSE IF row.frequency = "quarterly"
            THEN AdminPeriodRows(row, current_date, 3, row.monthly_cost * 3)
        ELSE IF row.frequency = "yearly"
            THEN << [expense_type |-> row.expense_type, item |-> row.item,
                     amount |-> row.monthly_cost * 12,
                     month |-> MonthKey(current_date),
                     date |-> current_date, frequency |-> row.frequency] >>
        ELSE <<>>

RECURSIVE admin_generate_cost_data(_)
\* AdminCostManager.generate_cost_data over self.data
admin_generate_cost_data(rows) ==
    IF rows = <<>> THEN <<>>
    ELSE AdminRows(rows[1]) \o admin_generate_cost_data(Tail(rows))

--------------------------------------------------------------------------
(* Monthly aggregation: merges and the two monthly tables                  *)

\* <<month key, value>> pairs of a table of rows with fields month, amount
MonthAmounts(rows) == [i \in 1..Len(rows) |-> <<rows[i].month, rows[i].amount>>]

\* <<period key, amount>> pairs of a table of dated entries
\* (entry.date is 收入日期 / 支出日期, entry.amount 收入金额 / 支出金额)
PeriodAmounts(entries) ==
    [i \in 1..Len(entries) |-> <<PeriodKey(entries[i].date), entries[i].amount>>]

\* the cell a how='left' merge on the month puts beside month k: <<v>> when
\* the grouped table has the key, <<>> (NaN) when it has not
LeftMerge(pairs, k) ==
    IF k \in GroupKeys(pairs) THEN <<GroupSum(pairs, k)>> ELSE <<>>

\* .fillna(0) on a cell
FillNa(cell) == IF cell = <<>> THEN 0 ELSE cell[1]

\* a column of the runway table: merged and filled when the source table is
\* not empty, the constant 0 otherwise
RunwayColumn(pairs, k) == IF pairs # <<>> THEN FillNa(LeftMerge(pairs, k)) ELSE 0

\* monthly_income of the runway: the cash flow grouped by 支付月份, the key
\* parsed to a timestamp and rendered again as a period
RunwayIncome(cash_flow) ==
    LET pairs == MonthAmounts(cash_flow)
        keys  == SortedStrings(GroupKeys(pairs))
    IN  [i \in 1..Len(keys) |->
            <<PeriodKey(ParseMonthKey(keys[i])), GroupSum(pairs, keys[i])>>]

\* all_months of the runway
RunwayMonths(income, material, labor_rows, admin_rows, occ_in, occ_out) ==
    GroupKeys(income) \cup GroupKeys(material) \cup GroupKeys(labor_rows)
        \cup GroupKeys(admin_rows) \cup GroupKeys(occ_in) \cup GroupKeys(occ_out)

RECURSIVE CumulativeBalance(_, _)
\* 累计现金余额: each month's balance is the previous balance (the starting
\* balance for the first month) plus the month's net cash flow
CumulativeBalance(nets, previous) ==
    IF nets = <<>> THEN <<>>
    ELSE <<previous + nets[1]>> \o CumulativeBalance(Tail(nets), previous + nets[1])

RECURSIVE RunwayCount(_)
\* runway_months: the rows before the first one whose balance is <= 0
RunwayCount(balances) ==
    IF balances = <<>> THEN 0
    ELSE IF balances[1] <= 0 THEN 0
    ELSE 1 + RunwayCount(Tail(balances))

\* monthly_summary of "Runway分析" without the balance column.
\* income: 收入; material: 物料成本; labor: 人工成本; admin: 行政成本;
\* occasional_income: 偶然收入; occasional_expense: 偶然支出; net: 净现金流
RunwayNetRows(cash_flow, table) ==
    LET income      == RunwayIncome(cash_flow)
        material    == MonthAmounts(generate_material_cost_data(projects, table))
        labor_rows  == MonthAmounts(labor_generate_cost_data(labor))
        admin_rows  == MonthAmounts(admin_generate_cost_data(admin))
        occ_in      == PeriodAmounts(occasional_income)
        occ_out     == PeriodAmounts(occasional_expense)
        months_list == SortedStrings(RunwayMonths(income, material, labor_rows,
                                                  admin_rows, occ_in, occ_out))
        Row(k) ==
            LET inc == FillNa(LeftMerge(income, k))
                mat == RunwayColumn(material, k)
                lab == RunwayColumn(labor_rows, k)
                adm == RunwayColumn(admin_rows, k)
                oin == RunwayColumn(occ_in, k)
                oex == RunwayColumn(occ_out, k)
            IN  [month |-> k, income |-> inc, material |-> mat, labor |-> lab,
                 admin |-> adm, occasional_income |-> oin,
                 occasional_expense |-> oex,
                 net |-> inc + oin - (mat + lab + adm + oex)]
    IN  [i \in 1..Len(months_list) |-> Row(months_list[i])]

\* the runway table with its 累计现金余额 column (balance) beside the rows
WithBalance(rows, balances) ==
    [i \in 1..Len(rows) |->
        [month |-> rows[i].month, income |-> rows[i].income,
         material |-> rows[i].material, labor |-> rows[i].labor,
         admin |-> rows[i].admin,
         occasional_income |-> rows[i].occasional_income,
         occasional_expense |-> rows[i].occasional_expense,
         net |-> rows[i].net, balance |-> balances[i]]]

\* the 净现金流 column of a runway table
NetColumn(rows) == [i \in 1..Len(rows) |-> rows[i].net]

\* 累计现金余额 of a runway table that starts from the cash balance
RunwayBalances(rows, balance) == CumulativeBalance(NetColumn(rows), balance)

\* monthly_summary of "Runway分析" with 累计现金余额 (balance)
RunwaySummary(cash_flow, table, balance) ==
    WithBalance(RunwayNetRows(cash_flow, table),
                RunwayBalances(RunwayNetRows(cash_flow, table), balance))

\* runway_months of a runway table
RunwayMonthsOf(summary) == RunwayCount([i \in 1..Len(summary) |-> summary[i].balance])

\* income_summary of "全面预算汇总": 纠偏后收入 grouped by the delivery period
IncomeSummary(rows) ==
    [i \in 1..Len(rows) |-> <<PeriodKey(rows[i].delivery), rows[i].corrected>>]

\* a column of the budget table before the final fillna(0): merged when the
\* grouped table is not empty, the constant 0 otherwise
BudgetColumn(pairs, k) == IF pairs # <<>> THEN LeftMerge(pairs, k) ELSE <<0>>

\* GrossMargin without the guard on total_revenue
GrossMarginUnguarded(gross_profit, total_revenue) ==
    [num |-> gross_profit * 100, den |-> total_revenue]

\* 毛利率: gross_profit / total_revenue * 100 when total_revenue > 0, else 0,
\* kept as the exact fraction num / den
GrossMargin(gross_profit, total_revenue) ==
    IF total_revenue > 0 THEN [num |-> gross_profit * 100, den |-> total_revenue]
    ELSE [num |-> 0, den |-> 1]

\* all_months of the budget table
BudgetMonths(income, material, labor_rows, admin_rows, occ_in, occ_out) ==
    GroupKeys(income) \cup GroupKeys(material) \cup GroupKeys(labor_rows)
        \cup GroupKeys(admin_rows) \cup GroupKeys(occ_in) \cup GroupKeys(occ_out)

\* one row of budget_summary with its derived columns.
\* revenue: 纠偏后收入; material: 物料成本; labor: 成本金额; admin: 月度成本;
\* total_revenue: 总收入; total_expense: 总支出; gross_profit: 毛利润;
\* gross_margin: 毛利率
BudgetRow(k, rev, mat, lab, adm, oin, oex) ==
    LET total_revenue == rev + oin
        total_expense == mat + lab + adm + oex
        gross_profit  == total_revenue - total_expense
    IN  [month |-> k, revenue |-> rev, material |-> mat, labor |-> lab,
         admin |-> adm, occasional_income |-> oin, occasional_expense |-> oex,
         total_revenue |-> total_revenue, total_expense |-> total_expense,
         gross_profit |-> gross_profit,
         gross_margin |-> GrossMargin(gross_profit, total_revenue)]

\* budget_summary of "全面预算汇总" (the income table is not empty)
BudgetSummary(table) ==
    LET income      == IncomeSummary(projects)
        material    == MonthAmounts(generate_material_cost_data(projects, table))
        labor_rows  == MonthAmounts(labor_generate_cost_data(labor))
        admin_rows  == MonthAmounts(admin_generate_cost_data(admin))
        occ_in      == PeriodAmounts(occasional_income)
        occ_out     == PeriodAmounts(occasional_expense)
        months_list == SortedStrings(BudgetMonths(income, material, labor_rows,
                                                  admin_rows, occ_in, occ_out))
        Row(k) == BudgetRow(k, FillNa(BudgetColumn(income, k)),
                               FillNa(BudgetColumn(material, k)),
                               FillNa(BudgetColumn(labor_rows, k)),
                               FillNa(BudgetColumn(admin_rows, k)),
                               FillNa(BudgetColumn(occ_in, k)),
                               FillNa(BudgetColumn(occ_out, k)))
    IN  SortByMonth([i \in 1..Len(months_list) |-> Row(months_list[i])])

\* all_months of the chart builders
ChartMonths(income, material, labor_rows, admin_rows) ==
    GroupKeys(income) \cup GroupKeys(material) \cup GroupKeys(labor_rows)
        \cup GroupKeys(admin_rows)

\* one row of the chart builders' budget_summary with its derived columns
ChartBudgetRow(k, rev, mat, lab, adm) ==
    LET total_revenue == rev
        total_expense == mat + lab + adm
        gross_profit  == total_revenue - total_expense
    IN  [month |-> k, revenue |-> rev, material |-> mat, labor |-> lab,
         admin |-> adm,
         total_revenue |-> total_revenue, total_expense |-> total_expense,
         gross_profit |-> gross_profit,
         gross_margin |-> GrossMargin(gross_profit, total_revenue)]

\* budget_summary of create_visualization_charts (the income table is not
\* empty)
ChartBudgetSummary(table) ==
    LET income      == IncomeSummary(projects)
        material    == MonthAmounts(generate_material_cost_data(projects, table))
        labor_rows  == MonthAmounts(labor_generate_cost_data(labor))
        admin_rows  == MonthAmounts(admin_generate_cost_data(admin))
        months_list == SortedStrings(ChartMonths(income, material, labor_rows,
                                                 admin_rows))
        Row(k) == ChartBudgetRow(k, FillNa(BudgetColumn(income, k)),
                                    FillNa(BudgetColumn(material, k)),
                                    FillNa(BudgetColumn(labor_rows, k)),
                                    FillNa(BudgetColumn(admin_rows, k)))
    IN  SortByMonth([i \in 1..Len(months_list) |-> Row(months_list[i])])

\* budget_summary of create_executive_dashboard_charts: the statements of
\* create_visualization_charts over again
DashboardBudgetSummary(table) == ChartBudgetSummary(table)

--------------------------------------------------------------------------
(* What a script run renders                                               *)

\* a page with none of the derived tables.  page: selected_page ("income"
\* is 收入预测, "cost" 成本管理, "cash_flow" 现金流分析, "budget" 全面预算汇总);
\* rejected: the add handler ended in st.error; error: which st.error it was
\* ("name": 项目名称不能为空, "ratio": 付款比例总和必须为100%, "" none);
\* ids_to_delete: the ids of the rows ticked for the delete that led to the
\* page; edited: the edited table that was written back before the page;
\* dashboard_shown, dashboard_summary: the ledger under the charts of
\* "导出经营概览报告" when the button was pressed
EmptyView(page) ==
    [page |-> page, rejected |-> FALSE, error |-> "",
     cash_flow |-> <<>>, warnings |-> {},
     runway_shown |-> FALSE, monthly_summary |-> <<>>, runway_months |-> 0,
     budget_shown |-> FALSE, budget_summary |-> <<>>,
     cash_flow_summary |-> <<>>, avg_margin |-> [num |-> 0, den |-> 1],
     material |-> <<>>, labor_monthly |-> <<>>, admin_monthly |-> <<>>,
     ids_to_delete |-> {}, edited |-> <<>>,
     dashboard_shown |-> FALSE, dashboard_summary |-> <<>>]

\* the tables of the page "成本管理" for the given collections
CostView(project_rows, labor_rows, admin_rows, table) ==
    [EmptyView("cost") EXCEPT
        !.material = generate_material_cost_data(project_rows, table),
        !.labor_monthly = labor_generate_cost_data(labor_rows),
        !.admin_monthly = admin_generate_cost_data(admin_rows)]

\* the values of 现金流类型 in the order groupby puts them (次付款, 质保金,
\* 首付款 by code point)
CashFlowKinds == <<"second_payment", "warranty_payment", "first_payment">>

\* 金额 summed over the cash-flow rows of one 现金流类型
KindSum(cash_flow, kind) ==
    SumSeq([i \in 1..Len(cash_flow) |->
               IF cash_flow[i].kind = kind THEN cash_flow[i].amount ELSE 0])

\* 占比 of 现金流汇总 with the group total divided out: amount / total * 100
\* as the fraction num / den, den = 0 standing for the NaN or infinity the
\* division by a zero total gives
CashFlowShare(amount, total) == [num |-> amount * 100, den |-> total]

\* cash_flow_summary of 现金流汇总: per 现金流类型 the amount and its share
\* of the total of all rows
CashFlowSummary(cash_flow) ==
    [i \in 1..Len(CashFlowKinds) |->
        [kind |-> CashFlowKinds[i],
         amount |-> KindSum(cash_flow, CashFlowKinds[i]),
         share |-> CashFlowShare(KindSum(cash_flow, CashFlowKinds[i]),
                                 SumSeq([j \in 1..Len(cash_flow) |-> cash_flow[j].amount]))]]

\* the page "现金流分析" with the runway section
RunwayView(cash_flow, warnings, summary) ==
    [EmptyView("cash_flow") EXCEPT
        !.cash_flow = cash_flow,
        !.cash_flow_summary = CashFlowSummary(cash_flow),
        !.warnings = warnings,
        !.runway_shown = TRUE,
        !.monthly_summary = summary,
        !.runway_months = RunwayMonthsOf(summary)]

\* the page "现金流分析": the cash flow with its warnings and, with a
\* positive cash balance, the runway
CashFlowView ==
    IF projects = <<>> THEN EmptyView("cash_flow")
    ELSE IF current_cash_balance > 0
         THEN RunwayView(generate_cash_flow_data(projects),
                         CashFlowWarnings(projects),
                         RunwaySummary(generate_cash_flow_data(projects),
                                       IncomeMaterialRatios, current_cash_balance))
         ELSE [EmptyView("cash_flow") EXCEPT
                  !.cash_flow = generate_cash_flow_data(projects),
                  !.cash_flow_summary = CashFlowSummary(generate_cash_flow_data(projects)),
                  !.warnings = CashFlowWarnings(projects)]

\* avg_margin of 预算汇总统计: total_profit / total_income * 100 when
\* total_income > 0, else 0
AverageMargin(summary) ==
    GrossMargin(SumSeq([i \in 1..Len(summary) |-> summary[i].gross_profit]),
                SumSeq([i \in 1..Len(summary) |-> summary[i].total_revenue]))

\* the page "全面预算汇总" showing the given ledger
LedgerView(summary) ==
    [EmptyView("budget") EXCEPT
        !.budget_shown = TRUE,
        !.budget_summary = summary,
        !.avg_margin = AverageMargin(summary)]

\* the page "全面预算汇总": the ledger when the income table is not empty
BudgetView ==
    IF projects = <<>> THEN EmptyView("budget")
    ELSE LedgerView(BudgetSummary(IncomeMaterialRatios))

--------------------------------------------------------------------------
(* Input domains                                                           *)

\* the calendar years of the model's dates, from the year before the base
\* date's (a leap year) on
Years == (BaseDate.year - 1)..(BaseDate.year - 2 + YearSpan)

\* delivery dates of the single-project specification: the first and every
\* day from the 28th on, of every month
DeliveryDates ==
    {dt \in {Date(y, m, d) : y \in Years, m \in 1..12, d \in {1, 28, 29, 30, 31}} :
        dt.day <= DaysInMonth(dt.year, dt.month)}

\* the years of the cost records' dates: all the years but the last
CostYears == {y \in Years : y + 1 \in Years}

\* start and end dates of the single-record cost specification: the first,
\* the 15th and the last day of every month
CostDates ==
    {Date(y, m, d) : y \in CostYears, m \in 1..12, d \in {1, 15}}
        \cup {Date(y, m, DaysInMonth(y, m)) : y \in CostYears, m \in 1..12}

\* money inputs, in hundredths
AmountTable == <<3000, 3333, 1, 12345>>

Amounts == {AmountTable[i] : i \in 1..MaxAmounts}

\* ratio triples an import file may carry (any percentages) and the ones
\* the add form accepts
FileRatios == {<<50, 40, 10>>, <<33, 33, 34>>, <<30, 30, 30>>, <<60, 40, 10>>}

FormRatios == {<<50, 40, 10>>, <<33, 33, 34>>, <<30, 30, 30>>}

BusinessLines == {"spectral", "automation", "other"}

Frequencies == {"monthly", "quarterly", "yearly"}

\* the inputs of the snapshot specification: few, and chosen so that months
\* with one category only, zero revenue and negative balances all occur
SnapshotDeliveries == {Date(2026, 1, 31), Date(2026, 3, 10)}

SnapshotLabor ==
    { [cost_type |-> "rd", person |-> "team", monthly_cost |-> 3000,
       start |-> Date(2025, 11, 15), end |-> Date(2026, 1, 10)],
      [cost_type |-> "sales", person |-> "crew", monthly_cost |-> 500,
       start |-> Date(2026, 2, 1), end |-> Date(2026, 2, 28)] }

SnapshotAdmin ==
    { [expense_type |-> "rent", item |-> "office", monthly_cost |-> 100,
       start |-> Date(2026, 1, 1), end |-> Date(2026, 3, 31), frequency |-> "monthly"],
      [expense_type |-> "tax", item |-> "filing", monthly_cost |-> 100,
       start |-> Date(2025, 12, 15), end |-> Date(2026, 6, 30), frequency |-> "quarterly"],
      [expense_type |-> "rent", item |-> "lease", monthly_cost |-> 10,
       start |-> Date(2025, 9, 20), end |-> Date(2027, 9, 19), frequency |-> "yearly"] }

SnapshotOccasionalIncome ==
    { [name |-> "subsidy", amount |-> 2000, date |-> Date(2026, 2, 20), type |-> "grant"] }

SnapshotOccasionalExpense ==
    { [name |-> "repair", amount |-> 1500, date |-> Date(2025, 10, 5), type |-> "other"] }

SnapshotBalances == {0, 3500, 1000000}

--------------------------------------------------------------------------
(* The session: initial state and handlers                                 *)

TotalRecords ==
    Len(projects) + Len(labor) + Len(admin)
        + Len(occasional_income) + Len(occasional_expense)

\* the session state of a first run: no stored files, the default ratio
\* table, the income manager built without a table, no cash balance
Init ==
    /\ projects = <<>>
    /\ labor = <<>>
    /\ admin = <<>>
    /\ occasional_income = <<>>
    /\ occasional_expense = <<>>
    /\ material_ratios = DefaultMaterialRatios
    /\ income_aliased = FALSE
    /\ current_cash_balance = 0
    /\ decay_lambda = DefaultDecayLambda
    /\ base_date = BaseDate
    /\ manual_corrected = <<>>
    /\ view = EmptyView("income")

\* the value of the input 纠偏后收入 of the add form: what the user typed,
\* or the pre-filled round(contract_amount * 0.5 * math.exp(-0.0315 * 0), 2)
\* when the field was left alone
DefaultAdjustedIncome(contract_amount) == Round2(contract_amount * 50, 100)

AdjustedIncomeInput(typed, manual_adjusted_income, contract_amount) ==
    IF typed THEN manual_adjusted_income ELSE DefaultAdjustedIncome(contract_amount)

\* the history of entered values with `value` entered for project `id`
Entered(history, id, value) ==
    [i \in DOMAIN history \cup {id} |-> IF i = id THEN value ELSE history[i]]

\* "计算并添加项目" on the page 收入预测, the page rendered after it.
\* typed: the user entered a 纠偏后收入 of their own
AddProject(dom, limit) ==
    /\ TotalRecords < limit
    /\ \E project_name \in dom.names, delivery_date \in dom.dates,
          contract_amount \in dom.contracts, close_rate \in dom.rates,
          business_line \in dom.lines,
          manual_adjusted_income \in dom.adjusted, ratios \in dom.ratios,
          typed \in dom.typed :
          IF project_name = "" \/ ratios[1] + ratios[2] + ratios[3] # 100
          THEN /\ projects' = SummaryColumns(projects)
               /\ manual_corrected' = manual_corrected
               /\ view' = [EmptyView("income") EXCEPT
                              !.rejected = TRUE,
                              !.error = IF project_name = "" THEN "name" ELSE "ratio"]
          ELSE /\ projects' = SummaryColumns(Append(projects,
                     NewProject(FreshId(Ids(projects)), project_name, delivery_date,
                                contract_amount, close_rate, business_line,
                                AdjustedIncomeInput(typed, manual_adjusted_income,
                                                    contract_amount),
                                ratios)))
               /\ manual_corrected' =
                     IF typed
                     THEN Entered(manual_corrected, FreshId(Ids(projects)),
                                  manual_adjusted_income)
                     ELSE manual_corrected
               /\ view' = EmptyView("income")
    /\ UNCHANGED <<labor, admin, occasional_income, occasional_expense, config_vars>>

\* "导入收入预测数据" on the page 收入预测, the page rendered after it
ImportProjects(dom, limit) ==
    /\ \E file \in dom.files :
          /\ TotalRecords + Len(file.rows) <= limit
          /\ projects' = SummaryColumns(projects \o
                 ImportRows(file.rows, file.has_id_column, file.has_ratio_columns,
                            Ids(projects) \cup Ids(file.rows)))
    /\ view' = EmptyView("income")
    /\ UNCHANGED <<labor, admin, occasional_income, occasional_expense,
                   manual_corrected, config_vars>>

\* "添加人工成本项目" on the page 成本管理, the page rendered after it
AddLabor(records, limit) ==
    /\ TotalRecords < limit
    /\ \E r \in records :
          /\ r.person # ""
          /\ labor' = Append(labor, r)
    /\ view' = CostView(projects, labor', admin, IncomeMaterialRatios)
    /\ UNCHANGED <<projects, manual_corrected, admin, occasional_income, occasional_expense, config_vars>>

\* "添加行政费用项目" on the page 成本管理, the page rendered after it
AddAdmin(records, limit) ==
    /\ TotalRecords < limit
    /\ \E r \in records :
          /\ r.item # ""
          /\ admin' = Append(admin, r)
    /\ view' = CostView(projects, labor, admin', IncomeMaterialRatios)
    /\ UNCHANGED <<projects, manual_corrected, labor, occasional_income, occasional_expense, config_vars>>

\* "添加偶然收入" on the page 成本管理
AddOccasionalIncome(entries, limit) ==
    /\ TotalRecords < limit
    /\ \E e \in entries :
          /\ e.name # ""
          /\ occasional_income' = Append(occasional_income, e)
    /\ view' = CostView(projects, labor, admin, IncomeMaterialRatios)
    /\ UNCHANGED <<projects, manual_corrected, labor, admin, occasional_expense, config_vars>>

\* "添加偶然支出" on the page 成本管理
AddOccasionalExpense(entries, limit) ==
    /\ TotalRecords < limit
    /\ \E e \in entries :
          /\ e.name # ""
          /\ occasional_expense' = Append(occasional_expense, e)
    /\ view' = CostView(projects, labor, admin, IncomeMaterialRatios)
    /\ UNCHANGED <<projects, manual_corrected, labor, admin, occasional_income, config_vars>>

\* the cash balance input of the page 系统配置 (min_value 0.0)
SetCashBalance(balances) ==
    /\ \E b \in balances :
          /\ b >= 0
          /\ b # current_cash_balance
          /\ current_cash_balance' = b
    /\ view' = EmptyView("config")
    /\ UNCHANGED <<data_vars, material_ratios, income_aliased,
                   decay_lambda, base_date>>

\* a run of the page 现金流分析
RenderCashFlowPage ==
    /\ view' = CashFlowView
    /\ view' # view
    /\ UNCHANGED <<data_vars, config_vars>>

\* a run of the page 全面预算汇总
RenderBudgetPage ==
    /\ view' = BudgetView
    /\ view' # view
    /\ UNCHANGED <<data_vars, config_vars>>

\* "导出经营概览报告" of the sidebar pressed on the page 全面预算汇总: the
\* charts of the report are built and the page is rendered below them
ExportOverviewReport ==
    /\ view' = [BudgetView EXCEPT
                   !.dashboard_shown = projects # <<>>,
                   !.dashboard_summary =
                       IF projects # <<>>
                       THEN DashboardBudgetSummary(IncomeMaterialRatios) ELSE <<>>]
    /\ view' # view
    /\ UNCHANGED <<data_vars, config_vars>>

\* a run of the page 成本管理 with no button pressed
RenderCostPage ==
    /\ view' = CostView(projects, labor, admin, IncomeMaterialRatios)
    /\ view' # view
    /\ UNCHANGED <<data_vars, config_vars>>

\* a run of the page 收入预测 with no button pressed: generate_summary adds
\* its columns to the stored table
RenderIncomePage ==
    /\ projects' = SummaryColumns(projects)
    /\ view' = EmptyView("income")
    /\ view' # view
    /\ UNCHANGED <<labor, admin, occasional_income, occasional_expense,
                   manual_corrected, config_vars>>

RECURSIVE SortByDeliveryMonth(_, _)
\* filtered_df.sort_values(by='交付月份', ascending=ascending): the rows in
\* the string order of their month keys, rows of one month in stored order
SortByDeliveryMonth(rows, ascending) ==
    IF rows = <<>> THEN <<>>
    ELSE LET Before(a, b) == IF ascending
                             THEN LexLess(a.delivery_month, b.delivery_month)
                             ELSE LexLess(b.delivery_month, a.delivery_month)
             i == CHOOSE n \in 1..Len(rows) :
                      /\ \A j \in 1..Len(rows) : ~Before(rows[j], rows[n])
                      /\ \A j \in 1..(n - 1) : Before(rows[n], rows[j])
             rest == [j \in 1..(Len(rows) - 1) |-> IF j < i THEN rows[j] ELSE rows[j + 1]]
         IN  <<rows[i]>> \o SortByDeliveryMonth(rest, ascending)

\* filtered_df of the project table: the stored rows of the chosen business
\* line ("all" is 全部) and delivery month (<<>> is 全部), sorted by 交付月份
DisplayedRows(rows, business_filter, month_filter, ascending) ==
    SortByDeliveryMonth(
        SelectSeq(rows, LAMBDA p :
            /\ business_filter = "all" \/ p.line = business_filter
            /\ month_filter = <<>> \/ p.delivery_month = month_filter),
        ascending)

\* ApplyEditedRow with 预期收入 reset to the edited 纠偏后收入 as well
ApplyEditedRowResetting(store, row) ==
    [i \in 1..Len(store) |->
        IF store[i].id = row.id /\ \A j \in 1..(i - 1) : store[j].id # row.id
        THEN [store[i] EXCEPT !.corrected = row.corrected, !.expected = row.corrected,
                              !.first = row.first, !.second = row.second,
                              !.final = row.final]
        ELSE store[i]]

\* one pass of the write-back loop: the first stored row with the id of the
\* edited row takes its 纠偏后收入 and its three ratios; no stored row with
\* that id, no change
ApplyEditedRow(store, row) ==
    IF \A i \in 1..Len(store) : store[i].id # row.id THEN store
    ELSE LET idx == CHOOSE i \in 1..Len(store) :
                        /\ store[i].id = row.id
                        /\ \A j \in 1..(i - 1) : store[j].id # row.id
         IN  [store EXCEPT ![idx].corrected = row.corrected,
                           ![idx].first = row.first,
                           ![idx].second = row.second,
                           ![idx].final = row.final]

RECURSIVE ApplyEdits(_, _)
\* the write-back loop over the rows of the edited table
ApplyEdits(store, edited) ==
    IF edited = <<>> THEN store
    ELSE ApplyEdits(ApplyEditedRow(store, edited[1]), Tail(edited))

\* a row added in the editor (num_rows="dynamic"): no ID (0), the column
\* defaults of 纠偏后收入 and of the three ratios
AddedRow == [id |-> 0, corrected |-> 0, first |-> 50, second |-> 40, final |-> 10]

\* the displayed table with row k edited to the given 纠偏后收入 and ratios,
\* and with a row added at the end when `added`
EditedTable(displayed, k, corrected, ratios, added) ==
    [displayed EXCEPT ![k].corrected = corrected, ![k].first = ratios[1],
                      ![k].second = ratios[2], ![k].final = ratios[3]]
        \o (IF added THEN <<AddedRow>> ELSE <<>>)

\* the st.warning of the edit: the rows of the edited table whose ratios do
\* not total 100
EditWarnings(edited) ==
    {i \in 1..Len(edited) : edited[i].first + edited[i].second + edited[i].final # 100}

\* the write-back of an edited table that differs from the displayed one,
\* and the page 收入预测 rendered after it.  k, corrected: the row edited
\* and the 纠偏后收入 it was given
WriteBack(displayed, edited, k, corrected) ==
    /\ edited # displayed
    /\ projects' = SummaryColumns(ApplyEdits(projects, edited))
    /\ manual_corrected' =
          IF corrected # displayed[k].corrected
          THEN Entered(manual_corrected, displayed[k].id, corrected)
          ELSE manual_corrected
    /\ view' = [EmptyView("income") EXCEPT !.warnings = EditWarnings(edited),
                                           !.edited = edited]

\* an edit of one row of 项目信息编辑 (its 纠偏后收入, its ratios, or both),
\* with or without a row added in the editor, written back by id
EditProject(dom) ==
    /\ \E business_filter \in dom.filters, month_filter \in dom.month_filters,
          ascending \in dom.ascending :
          /\ DisplayedRows(projects, business_filter, month_filter, ascending) # <<>>
          /\ \E k \in 1..Len(DisplayedRows(projects, business_filter, month_filter,
                                            ascending)),
                corrected \in dom.edited, ratios \in dom.edited_ratios,
                added \in dom.added :
                WriteBack(DisplayedRows(projects, business_filter, month_filter,
                                        ascending),
                          EditedTable(DisplayedRows(projects, business_filter,
                                                    month_filter, ascending),
                                      k, corrected, ratios, added),
                          k, corrected)
    /\ UNCHANGED <<labor, admin, occasional_income, occasional_expense, config_vars>>

\* the history without the projects that are no longer stored
Forget(history, ids) == [i \in DOMAIN history \ ids |-> history[i]]

\* RemainingRows dropping only the first stored row of each id
RemainingRowsFirstMatch(full_data, ids_to_delete) ==
    SelectSeq([i \in 1..Len(full_data) |->
                  IF /\ full_data[i].id \in ids_to_delete
                     /\ \A j \in 1..(i - 1) : full_data[j].id # full_data[i].id
                  THEN [full_data[i] EXCEPT !.id = 0] ELSE full_data[i]],
              LAMBDA p : p.id # 0)

\* full_data[~full_data['ID'].isin(ids_to_delete)].reset_index(drop=True)
RemainingRows(full_data, ids_to_delete) ==
    SelectSeq(full_data, LAMBDA p : p.id \notin ids_to_delete)

\* rows_to_delete['ID'].tolist() for the ticked rows of the displayed table
TickedIds(displayed, ticked) == {displayed[i].id : i \in ticked}

\* "删除 n 个选中的项目": the stored rows whose id is among the ticked rows'
\* ids are dropped, and st.rerun() renders the page 收入预测
DeleteProjects(dom) ==
    /\ \E business_filter \in dom.filters, month_filter \in dom.month_filters,
          ascending \in dom.ascending :
          \E ticked \in SUBSET (1..Len(DisplayedRows(projects, business_filter,
                                                     month_filter, ascending))) :
              /\ ticked # {}
              /\ projects' = SummaryColumns(RemainingRows(projects,
                      TickedIds(DisplayedRows(projects, business_filter,
                                              month_filter, ascending), ticked)))
              /\ manual_corrected' = Forget(manual_corrected,
                      TickedIds(DisplayedRows(projects, business_filter,
                                              month_filter, ascending), ticked))
              /\ view' = [EmptyView("income") EXCEPT !.ids_to_delete =
                      TickedIds(DisplayedRows(projects, business_filter,
                                              month_filter, ascending), ticked)]
    /\ UNCHANGED <<labor, admin, occasional_income, occasional_expense, config_vars>>

\* a material ratio input of the page 系统配置 written to
\* st.session_state.material_ratios
SetMaterialRatio(dom) ==
    /\ \E business_line \in dom.ratio_lines, ratio \in dom.material :
          /\ material_ratios[business_line] # ratio
          /\ material_ratios' = [material_ratios EXCEPT ![business_line] = ratio]
    /\ view' = EmptyView("config")
    /\ UNCHANGED <<data_vars, income_aliased, current_cash_balance,
                   decay_lambda, base_date>>

\* the inputs 时间衰减系数 (min 0.01, max 0.1) and 预测基准日期 of the page
\* 系统配置
SetDecayParameters(dom) ==
    /\ \E lambda \in dom.lambdas, date \in dom.base_dates :
          /\ lambda >= 100 /\ lambda <= 1000
          /\ <<lambda, date>> # <<decay_lambda, base_date>>
          /\ decay_lambda' = lambda
          /\ base_date' = date
    /\ view' = EmptyView("config")
    /\ UNCHANGED <<data_vars, material_ratios, income_aliased, current_cash_balance>>

\* "刷新并重新计算": the income manager is built again over the same data
\* with st.session_state.material_ratios as its table
Refresh ==
    /\ income_aliased' = TRUE
    /\ view' = EmptyView("config")
    /\ UNCHANGED <<data_vars, material_ratios, current_cash_balance,
                   decay_lambda, base_date>>


--------------------------------------------------------------------------
(* Specifications                                                          *)

\* the inputs of the add form and of import files in the snapshot
\* specification
SnapshotProjectInputs ==
    [names |-> {"A"}, dates |-> SnapshotDeliveries, contracts |-> {10000},
     rates |-> {50}, lines |-> {"spectral"}, adjusted |-> {10000},
     ratios |-> {<<50, 40, 10>>}, typed |-> {TRUE},
     files |-> { [rows |-> << [id |-> 0, name |-> "B", delivery |-> Date(2026, 3, 10),
                              contract |-> 10000, close_rate |-> 50,
                              line |-> "other", ratios |-> <<30, 30, 30>>] >>,
                  has_id_column |-> FALSE, has_ratio_columns |-> TRUE] }]

\* the snapshot specification: collections of up to MaxRecords records, any
\* cash balance, and the pages that aggregate them
Next ==
    \/ AddProject(SnapshotProjectInputs, MaxRecords)
    \/ ImportProjects(SnapshotProjectInputs, MaxRecords)
    \/ AddLabor(SnapshotLabor, MaxRecords)
    \/ AddAdmin(SnapshotAdmin, MaxRecords)
    \/ AddOccasionalIncome(SnapshotOccasionalIncome, MaxRecords)
    \/ AddOccasionalExpense(SnapshotOccasionalExpense, MaxRecords)
    \/ SetCashBalance(SnapshotBalances)
    \/ RenderCashFlowPage
    \/ RenderBudgetPage

Spec == Init /\ [][Next]_vars

\* the inputs of the single-project specification: one project from a wide
\* range of delivery dates, amounts, rates and ratios, by either intake path
WideProjectInputs ==
    [names |-> {"A"}, dates |-> DeliveryDates, contracts |-> {AmountTable[1]},
     rates |-> {50}, lines |-> {"spectral", "other"}, adjusted |-> Amounts,
     ratios |-> FormRatios, typed |-> {TRUE},
     files |-> { [rows |-> << [id |-> 0, name |-> "B", delivery |-> d,
                              contract |-> c, close_rate |-> r,
                              line |-> "automation", ratios |-> t] >>,
                  has_id_column |-> FALSE, has_ratio_columns |-> h]
                 : d \in DeliveryDates, c \in Amounts, r \in {80},
                   t \in FileRatios, h \in BOOLEAN }]

NextIncome ==
    \/ AddProject(WideProjectInputs, 1)
    \/ ImportProjects(WideProjectInputs, 1)
    \/ RenderCashFlowPage
    \/ RenderCostPage

SpecIncome == Init /\ [][NextIncome]_vars

\* the inputs of the single-record cost specification
WideLabor ==
    { [cost_type |-> "rd", person |-> "team", monthly_cost |-> m,
       start |-> s, end |-> e]
      : m \in Amounts \cup {AmountTable[3]}, s \in CostDates, e \in CostDates }

WideAdmin ==
    { [expense_type |-> "rent", item |-> "office", monthly_cost |-> AmountTable[1],
       start |-> s, end |-> e, frequency |-> f]
      : s \in CostDates, e \in CostDates, f \in Frequencies }

NextCost ==
    \/ AddLabor(WideLabor, 1)
    \/ AddAdmin(WideAdmin, 1)

SpecCost == Init /\ [][NextCost]_vars

\* the inputs of the lifecycle specification: projects are added (with the
\* 纠偏后收入 typed or left alone), imported, edited and deleted while the
\* decay parameters of the configuration change
LifeInputs ==
    [names |-> {"A", ""}, dates |-> {Date(2026, 3, 10)}, contracts |-> {10000},
     rates |-> {80}, lines |-> {"spectral"}, adjusted |-> {6000},
     ratios |-> {<<50, 40, 10>>, <<30, 30, 30>>}, typed |-> BOOLEAN,
     files |-> { [rows |-> << [id |-> 0, name |-> "B", delivery |-> Date(2026, 9, 30),
                              contract |-> 10000, close_rate |-> 50,
                              line |-> "automation", ratios |-> <<60, 40, 10>>] >>,
                  has_id_column |-> FALSE, has_ratio_columns |-> TRUE] },
     filters |-> {"all", "automation"}, month_filters |-> {<<>>},
     ascending |-> {FALSE}, added |-> {FALSE},
     edited |-> {6000, 7000}, edited_ratios |-> {<<50, 40, 10>>, <<60, 30, 30>>},
     lambdas |-> {0, DefaultDecayLambda, 500},
     base_dates |-> {BaseDate, Date(2026, 6, 1)}]

NextLife ==
    \/ AddProject(LifeInputs, MaxRecords - 1)
    \/ ImportProjects(LifeInputs, MaxRecords - 1)
    \/ EditProject(LifeInputs)
    \/ DeleteProjects(LifeInputs)
    \/ SetDecayParameters(LifeInputs)

SpecLife == Init /\ [][NextLife]_vars

\* the inputs of the project table specification: projects are added by
\* hand and imported from a file with an ID column (one row with an id, one
\* with a blank cell), as a file exported from the application has; the
\* table is filtered by business line and month and sorted either way
\* before rows are edited, added in the editor or ticked for deletion
TableInputs ==
    [names |-> {"A"}, dates |-> {Date(2026, 3, 10)}, contracts |-> {10000},
     rates |-> {80}, lines |-> {"spectral"}, adjusted |-> {6000},
     ratios |-> {<<50, 40, 10>>}, typed |-> {TRUE},
     files |-> { [rows |-> << [id |-> 7, name |-> "B", delivery |-> Date(2026, 9, 30),
                              contract |-> 10000, close_rate |-> 50,
                              line |-> "automation", ratios |-> <<60, 30, 10>>] >>,
                  has_id_column |-> TRUE, has_ratio_columns |-> TRUE],
                 [rows |-> << [id |-> 0, name |-> "C", delivery |-> Date(2026, 3, 20),
                              contract |-> 10000, close_rate |-> 50,
                              line |-> "automation", ratios |-> <<60, 30, 10>>] >>,
                  has_id_column |-> TRUE, has_ratio_columns |-> TRUE] },
     filters |-> {"all", "automation"},
     month_filters |-> {<<>>, MonthKey(Date(2026, 3, 10))},
     ascending |-> BOOLEAN, added |-> BOOLEAN,
     edited |-> {7000}, edited_ratios |-> {<<60, 30, 30>>}]

NextTable ==
    \/ AddProject(TableInputs, MaxRecords - 1)
    \/ ImportProjects(TableInputs, MaxRecords - 1)
    \/ EditProject(TableInputs)
    \/ DeleteProjects(TableInputs)

SpecTable == Init /\ [][NextTable]_vars

\* the report specification: the snapshot's collections of up to
\* MaxRecords - 1 records, the ledger page and the overview report
NextReport ==
    \/ AddProject(SnapshotProjectInputs, MaxRecords - 1)
    \/ AddLabor(SnapshotLabor, MaxRecords - 1)
    \/ AddAdmin(SnapshotAdmin, MaxRecords - 1)
    \/ AddOccasionalIncome(SnapshotOccasionalIncome, MaxRecords - 1)
    \/ AddOccasionalExpense(SnapshotOccasionalExpense, MaxRecords - 1)
    \/ RenderBudgetPage
    \/ ExportOverviewReport

SpecReport == Init /\ [][NextReport]_vars

\* the inputs of the configuration specification: the material ratio table
\* and the cash balance change, with or without a refresh, around the pages
\* that aggregate a small snapshot
ConfigInputs ==
    [names |-> {"A"}, dates |-> {Date(2026, 3, 10)}, contracts |-> {10000},
     rates |-> {80}, lines |-> {"spectral", "other"}, adjusted |-> {0, 6000},
     ratios |-> {<<50, 40, 10>>}, typed |-> {TRUE},
     ratio_lines |-> {"spectral", "automation"}, material |-> {300, 400, 500}]

NextConfig ==
    \/ AddProject(ConfigInputs, MaxRecords - 1)
    \/ AddLabor(SnapshotLabor, MaxRecords - 1)
    \/ SetMaterialRatio(ConfigInputs)
    \/ Refresh
    \/ SetCashBalance({0, 3500})
    \/ RenderIncomePage
    \/ RenderCashFlowPage
    \/ RenderBudgetPage
    \/ RenderCostPage

SpecConfig == Init /\ [][NextConfig]_vars

--------------------------------------------------------------------------
(* Properties of the runway projection (snapshot specification)            *)

\* the runway section of the rendered cash-flow page obeys the recurrences:
\* the months are in strictly increasing chronological order, balance[1] is
\* the cash balance plus net[1], balance[i] is balance[i-1] plus net[i], and
\* runway_months is the number of leading months with a positive balance
\* (the whole length when no balance is <= 0)
RunwayProjected ==
    LET s == view.monthly_summary
        n == view.runway_months
    IN  /\ view.runway_shown
        /\ s # <<>>
        /\ \A i \in 1..(Len(s) - 1) :
              /\ s[i].month # s[i + 1].month
              /\ DateLE(ParseMonthKey(s[i].month), ParseMonthKey(s[i + 1].month))
        /\ \A i \in 1..Len(s) :
              s[i].balance = (IF i = 1 THEN current_cash_balance ELSE s[i - 1].balance)
                                + s[i].net
        /\ n \in 0..Len(s)
        /\ \A i \in 1..n : s[i].balance > 0
        /\ n < Len(s) => s[n + 1].balance <= 0

\* C1: for any starting balance B0 >= 0 the cash-flow page of a snapshot
\* with projects projects the runway: balance[1] = B0 + net[1], balance[i] =
\* balance[i-1] + net[i], and runway_months counts the leading months whose
\* balance is strictly positive.  The code projects nothing when B0 = 0.
C1_RunwayAnyBalance ==
    (view.page = "cash_flow" /\ projects # <<>> /\ current_cash_balance >= 0)
        => RunwayProjected

\* the part of C1 the code keeps: with a positive cash balance and a project
\* table that is not empty the runway is projected by the recurrences
RunwayWithPositiveBalance ==
    (view.page = "cash_flow" /\ projects # <<>> /\ current_cash_balance > 0)
        => RunwayProjected

\* a projected runway whose balance falls to <= 0 after a positive first
\* month and is positive again later: the later months are not counted
RunwayRecovers ==
    /\ view.page = "cash_flow"
    /\ view.runway_shown
    /\ view.runway_months = 1
    /\ \E i, j \in 1..Len(view.monthly_summary) :
          /\ i < j
          /\ view.monthly_summary[i].balance <= 0
          /\ view.monthly_summary[j].balance > 0

--------------------------------------------------------------------------
(* Properties of the budget ledger (snapshot specification)                *)

\* the amounts of the six categories in month k of the current snapshot
RevenueIn(k) ==
    SumSeq([i \in 1..Len(projects) |->
        IF PeriodKey(projects[i].delivery) = k THEN projects[i].corrected ELSE 0])

MaterialIn(k) ==
    SumSeq([i \in 1..Len(projects) |->
        IF MaterialCostRow(projects[i], IncomeMaterialRatios).month = k
        THEN MaterialCostRow(projects[i], IncomeMaterialRatios).amount ELSE 0])

LaborIn(k) ==
    SumSeq([i \in 1..Len(labor_generate_cost_data(labor)) |->
        IF labor_generate_cost_data(labor)[i].month = k
        THEN labor_generate_cost_data(labor)[i].amount ELSE 0])

AdminIn(k) ==
    SumSeq([i \in 1..Len(admin_generate_cost_data(admin)) |->
        IF admin_generate_cost_data(admin)[i].month = k
        THEN admin_generate_cost_data(admin)[i].amount ELSE 0])

OccasionalIncomeIn(k) ==
    SumSeq([i \in 1..Len(occasional_income) |->
        IF PeriodKey(occasional_income[i].date) = k
        THEN occasional_income[i].amount ELSE 0])

OccasionalExpenseIn(k) ==
    SumSeq([i \in 1..Len(occasional_expense) |->
        IF PeriodKey(occasional_expense[i].date) = k
        THEN occasional_expense[i].amount ELSE 0])

\* the month keys present in any category of the current snapshot
CategoryMonths ==
    {PeriodKey(projects[i].delivery) : i \in 1..Len(projects)}
        \cup {MaterialCostRow(projects[i], IncomeMaterialRatios).month :
                 i \in 1..Len(projects)}
        \cup {labor_generate_cost_data(labor)[i].month :
                 i \in 1..Len(labor_generate_cost_data(labor))}
        \cup {admin_generate_cost_data(admin)[i].month :
                 i \in 1..Len(admin_generate_cost_data(admin))}
        \cup {PeriodKey(occasional_income[i].date) : i \in 1..Len(occasional_income)}
        \cup {PeriodKey(occasional_expense[i].date) : i \in 1..Len(occasional_expense)}

\* the rendered ledger has exactly the months of CategoryMonths, one row
\* each, and every category cell is that category's amount in the month,
\* the number 0 when the category has none
LedgerCoversCategories ==
    LET t == view.budget_summary
    IN  /\ {t[i].month : i \in 1..Len(t)} = CategoryMonths
        /\ Len(t) = Cardinality(CategoryMonths)
        /\ \A i \in 1..Len(t) :
              /\ t[i].revenue = RevenueIn(t[i].month)
              /\ t[i].material = MaterialIn(t[i].month)
              /\ t[i].labor = LaborIn(t[i].month)
              /\ t[i].admin = AdminIn(t[i].month)
              /\ t[i].occasional_income = OccasionalIncomeIn(t[i].month)
              /\ t[i].occasional_expense = OccasionalExpenseIn(t[i].month)

\* C4: for every snapshot, the project collection empty or not, the month
\* keys of the ledger of the budget page are exactly the union of the month
\* keys of the six categories, and a category without activity in a month
\* contributes the number 0.  The code builds no ledger without projects.
C4_LedgerMonthUnion ==
    view.page = "budget" => LedgerCoversCategories

\* the part of C4 the code keeps: the ledger of a snapshot with projects
LedgerWithProjects ==
    (view.page = "budget" /\ projects # <<>>)
        => (view.budget_shown /\ LedgerCoversCategories)

\* a ledger with a month that only the labor category has
LedgerMonthOfOneCategory ==
    /\ view.page = "budget"
    /\ view.budget_shown
    /\ \E i \in 1..Len(view.budget_summary) :
          LET r == view.budget_summary[i]
          IN  /\ r.labor > 0
              /\ r.revenue = 0 /\ r.material = 0 /\ r.admin = 0
              /\ r.occasional_income = 0 /\ r.occasional_expense = 0

\* C5: in every row of the ledger of the budget page, total_revenue =
\* revenue + occasional_income, total_expense = material + labor + admin +
\* occasional_expense, gross_profit = total_revenue - total_expense, and
\* gross_margin is gross_profit / total_revenue * 100 when total_revenue > 0
\* and exactly 0 otherwise
C5_LedgerDerivedColumns ==
    view.page = "budget" =>
        \A i \in 1..Len(view.budget_summary) :
            LET r == view.budget_summary[i]
            IN  /\ r.total_revenue = r.revenue + r.occasional_income
                /\ r.total_expense = r.material + r.labor + r.admin
                                        + r.occasional_expense
                /\ r.gross_profit = r.total_revenue - r.total_expense
                /\ r.total_revenue > 0 =>
                      /\ r.gross_margin.den = r.total_revenue
                      /\ r.gross_margin.num = r.gross_profit * 100
                /\ r.total_revenue <= 0 =>
                      /\ r.gross_margin.num = 0
                      /\ r.gross_margin.den # 0

\* a ledger with a month of no revenue but expenses (margin 0), a month
\* with project revenue and a month whose revenue is occasional income
C5_ZeroAndPositiveRevenue ==
    /\ view.page = "budget"
    /\ \E i, j, k \in 1..Len(view.budget_summary) :
          /\ view.budget_summary[i].total_revenue = 0
          /\ view.budget_summary[i].total_expense > 0
          /\ view.budget_summary[j].revenue > 0
          /\ view.budget_summary[j].gross_profit # 0
          /\ view.budget_summary[k].occasional_income > 0

--------------------------------------------------------------------------
(* Properties of the cost expansions (single-record cost specification)    *)

\* the number of a date's calendar month and the key of a month number
MonthIndex(dt) == dt.year * 12 + (dt.month - 1)

KeyOfIndex(n) == MonthKey(Date(n \div 12, (n % 12) + 1, 1))

\* amount is num / den rounded to the nearest hundredth
Nearest(amount, num, den) == 2 * Abs(amount * den - num) <= den

\* C2: for every labor record with start <= end and monthly rate M the
\* first overlapped month is allocated M * d / D, d the days from start.day
\* to the end of that month or to end, whichever is earlier, D the month's
\* day count.  The code counts the first month from its first day.
C2_LaborFirstMonth ==
    (view.page = "cost" /\ labor # <<>> /\ DateLE(labor[1].start, labor[1].end)) =>
        LET r    == labor[1]
            rows == view.labor_monthly
            D    == DaysInMonth(r.start.year, r.start.month)
            last == IF MonthIndex(r.end) = MonthIndex(r.start) THEN r.end.day ELSE D
        IN  /\ rows # <<>>
            /\ rows[1].month = MonthKey(r.start)
            /\ Nearest(rows[1].amount, r.monthly_cost * (last - r.start.day + 1), D)

\* C3: for every labor record spanning more than one calendar month, each
\* interior month is allocated exactly M and the last month M * end.day / D,
\* D the day count of that calendar month
C3_LaborInteriorAndLast ==
    (view.page = "cost" /\ labor # <<>>
        /\ MonthIndex(labor[1].start) < MonthIndex(labor[1].end)) =>
        LET r    == labor[1]
            rows == view.labor_monthly
            n    == MonthIndex(r.end) - MonthIndex(r.start) + 1
            D    == DaysInMonth(r.end.year, r.end.month)
        IN  /\ Len(rows) = n
            /\ \A i \in 1..n : rows[i].month = KeyOfIndex(MonthIndex(r.start) + i - 1)
            /\ \A i \in 2..(n - 1) : rows[i].amount = r.monthly_cost
            /\ Nearest(rows[n].amount, r.monthly_cost * r.end.day, D)

\* a record that starts in the middle of a month, has interior months and
\* ends in the middle of a February
C3_EndsInFebruary ==
    /\ view.page = "cost"
    /\ labor # <<>>
    /\ Len(view.labor_monthly) >= 4
    /\ labor[1].end.month = 2 /\ labor[1].end.day = 15
    /\ labor[1].start.day = 15
    /\ view.labor_monthly[Len(view.labor_monthly)].amount < labor[1].monthly_cost

\* C8: an administrative record (M, start, end) of frequency monthly has
\* exactly one event of amount M for each calendar month from start's month
\* to end's month; of frequency quarterly, one event of amount 3 * M at
\* start's month and every 3 calendar months after it while the event month
\* is <= end
C8_AdminMonthlyQuarterly ==
    (view.page = "cost" /\ admin # <<>>
        /\ admin[1].frequency \in {"monthly", "quarterly"}) =>
        LET r      == admin[1]
            rows   == view.admin_monthly
            step   == IF r.frequency = "monthly" THEN 1 ELSE 3
            first  == MonthIndex(r.start)
            months == {m \in first..MonthIndex(r.end) : (m - first) % step = 0}
        IN  /\ Len(rows) = Cardinality(months)
            /\ \A i \in 1..Len(rows) :
                  /\ first + (i - 1) * step \in months
                  /\ rows[i].month = KeyOfIndex(first + (i - 1) * step)
                  /\ rows[i].amount = step * r.monthly_cost

\* a quarterly record with four events, the last in a later year than the
\* first and the end date not in an event month
C8_FourQuarters ==
    /\ view.page = "cost"
    /\ admin # <<>>
    /\ admin[1].frequency = "quarterly"
    /\ Len(view.admin_monthly) = 4
    /\ view.admin_monthly[4].date.year > admin[1].start.year
    /\ MonthIndex(admin[1].end) > MonthIndex(view.admin_monthly[4].date)

\* C9: an administrative record of frequency yearly has exactly one event,
\* at start's month, of amount 12 * M, however many years [start, end]
\* spans and whatever end is
C9_AdminYearly ==
    (view.page = "cost" /\ admin # <<>> /\ admin[1].frequency = "yearly") =>
        /\ Len(view.admin_monthly) = 1
        /\ view.admin_monthly[1].month = MonthKey(admin[1].start)
        /\ view.admin_monthly[1].amount = 12 * admin[1].monthly_cost

\* a yearly record whose interval covers a second anniversary month
C9_SpansTwoYears ==
    /\ view.page = "cost"
    /\ admin # <<>>
    /\ admin[1].frequency = "yearly"
    /\ MonthIndex(admin[1].end) >= MonthIndex(admin[1].start) + 12
    /\ Len(view.admin_monthly) = 1

--------------------------------------------------------------------------
(* Properties of the project intake and the cash flow                      *)
(* (single-project specification)                                          *)

\* the day a calendar offset gives in month number n for a date of day d:
\* d when the month has it, the month's last day otherwise
ClampedDay(d, n) ==
    IF d <= DaysInMonth(n \div 12, (n % 12) + 1) THEN d
    ELSE DaysInMonth(n \div 12, (n % 12) + 1)

\* C6: for a project of corrected revenue R, delivery date d and ratios
\* (p1, p2, p3) the cash flow has exactly three events, in this order: the
\* first payment R * p1 / 100 dated d, the second payment R * p2 / 100 dated
\* one calendar month after d, the warranty payment R * p3 / 100 dated
\* twelve calendar months after d; an offset keeps the day of month when the
\* target month has it and is the target month's last day otherwise, so the
\* second payment's month key is the month after the delivery month and
\* the warranty's the same month of the next year
C6_CashFlowEvents ==
    (view.page = "cash_flow" /\ projects # <<>>) =>
        LET p == projects[1]
            e == view.cash_flow
            d == p.delivery
            n == MonthIndex(d)
        IN  /\ Len(e) = 3
            /\ <<e[1].kind, e[2].kind, e[3].kind>>
                  = <<"first_payment", "second_payment", "warranty_payment">>
            /\ Nearest(e[1].amount, p.corrected * p.first, 100)
            /\ Nearest(e[2].amount, p.corrected * p.second, 100)
            /\ Nearest(e[3].amount, p.corrected * p.final, 100)
            /\ e[1].date = d
            /\ e[1].month = KeyOfIndex(n)
            /\ MonthIndex(e[2].date) = n + 1
            /\ e[2].date.day = ClampedDay(d.day, n + 1)
            /\ e[2].month = KeyOfIndex(n + 1)
            /\ MonthIndex(e[3].date) = n + 12
            /\ e[3].date.day = ClampedDay(d.day, n + 12)
            /\ e[3].month = KeyOfIndex(n + 12)

\* a delivery on the 31st of a month followed by a 30-day month: the second
\* payment is dated the 30th, the warranty payment the 31st
C6_ClampedSecondPayment ==
    /\ view.page = "cash_flow"
    /\ projects # <<>>
    /\ projects[1].delivery.day = 31
    /\ Len(view.cash_flow) = 3
    /\ view.cash_flow[2].date.day = 30
    /\ view.cash_flow[3].date.day = 31

\* C7: the amounts of a project's three cash-flow events sum to
\* corrected * (p1 + p2 + p3) / 100, and to corrected when the ratios sum to
\* exactly 100, within the rounding of the three amounts to the hundredth
C7_CashFlowConservation ==
    (view.page = "cash_flow" /\ projects # <<>>) =>
        LET p     == projects[1]
            e     == view.cash_flow
            total == SumSeq([i \in 1..Len(e) |-> e[i].amount])
        IN  /\ Len(e) = 3
            /\ Abs(100 * total - p.corrected * (p.first + p.second + p.final)) <= 150
            /\ p.first + p.second + p.final = 100 => Abs(total - p.corrected) <= 1

\* a project whose ratios sum to 100 and whose payments are not whole
\* hundredths before rounding
C7_RoundedPayments ==
    /\ view.page = "cash_flow"
    /\ projects # <<>>
    /\ projects[1].first + projects[1].second + projects[1].final = 100
    /\ (projects[1].corrected * projects[1].first) % 100 # 0
    /\ (projects[1].corrected * projects[1].final) % 100 # 0
    /\ Len(view.cash_flow) = 3

\* C10: month_diff is max(0, (d.year - b.year) * 12 + (d.month - b.month))
\* for the delivery date d and the base date b, whatever the day of month;
\* a delivery before the base month has month_diff 0 and decay factor 1;
\* on both intake paths
C10_MonthDiffClamp ==
    \A i \in 1..Len(projects) :
        LET p    == projects[i]
            diff == (p.delivery.year - BaseDate.year) * 12
                       + (p.delivery.month - BaseDate.month)
        IN  /\ p.month_diff = (IF diff > 0 THEN diff ELSE 0)
            /\ MonthIndex(p.delivery) < MonthIndex(BaseDate) =>
                  /\ p.month_diff = 0
                  /\ p.time_decay = 10000
                  /\ Nearest(p.expected, p.contract * p.close_rate, 100)

\* an imported project delivered on the last day of a month of an earlier
\* year than the base date's
C10_ImportedPastDelivery ==
    /\ projects # <<>>
    /\ projects[1].name = "B"
    /\ projects[1].delivery.year < BaseDate.year
    /\ projects[1].delivery.day = 31
    /\ projects[1].month_diff = 0

\* a * d / 1000 for a decay factor d in millionths, in pieces below 2^31
TimesDecay(a, d) == a * (d \div 1000) + (a * (d % 1000)) \div 1000

\* C11: expected revenue is contract * close_rate * decayFactor(month_diff)
\* with decayFactor(t) = e^(-0.0315 * t): the factor is in (0, 1], is 1 at
\* t = 0, decreases strictly with t and multiplies over months
\* (decayFactor(t) = decayFactor(t - 1) * decayFactor(1)); contract 100 at
\* close rate 50% three months after the base date has factor 0.9098 and
\* expected revenue 45.49
C11_DecayAndExpectedRevenue ==
    /\ Round2(DecayTable[4], 100) = 9098
    /\ ExpectedRevenue(10000, 50, 3) = 4549
    /\ \A i \in 1..Len(projects) :
          LET p == projects[i]
              t == p.month_diff
              d == DecayTable[t + 1]
          IN  /\ Nearest(p.time_decay, d, 100)
              /\ p.time_decay > 0 /\ p.time_decay <= 10000
              /\ d > 0 /\ d <= 1000000
              /\ (t = 0) <=> (d = 1000000)
              /\ t > 0 =>
                    /\ d < DecayTable[t]
                    /\ Abs(1000 * d - TimesDecay(DecayTable[t], DecayTable[2])) <= 1501
              /\ Abs(100000 * p.expected - TimesDecay(p.contract * p.close_rate, d))
                    <= 50001

\* a manually added project delivered at least three months after the base
\* date: the expected revenue is below contract * close_rate
C11_DecayedProject ==
    /\ projects # <<>>
    /\ projects[1].name = "A"
    /\ projects[1].month_diff >= 3
    /\ projects[1].time_decay < 9100
    /\ 100 * projects[1].expected < projects[1].contract * projects[1].close_rate

\* C13: material cost allocation.  On the cost page the material table has
\* exactly one row per project, in the order of the projects; its amount is
\* correctedRevenue * ratio (to the cent), where ratio is the entry of the
\* project's business line in the ratio table of the income manager, or the
\* fallback 0.30 when the line is not in the table; the row is keyed by the
\* calendar month immediately before the delivery month (December of the
\* previous year for a January delivery)
C13_MaterialAllocation ==
    view.page = "cost" =>
        /\ Len(view.material) = Len(projects)
        /\ \A i \in 1..Len(projects) :
              LET p == projects[i]
                  m == view.material[i]
                  ratio == IF p.line \in DOMAIN IncomeMaterialRatios
                           THEN IncomeMaterialRatios[p.line] ELSE 300
              IN  /\ m.name = p.name
                  /\ m.ratio = ratio
                  /\ Nearest(m.amount, p.corrected * ratio, 1000)
                  /\ m.month = KeyOfIndex(MonthIndex(p.delivery) - 1)
                  /\ p.delivery.month = 1 =>
                        m.month = MonthKey(Date(p.delivery.year - 1, 12, 1))

\* the cost page shows the material cost of a project of a business line
\* outside the ratio table, delivered at the end of a January
C13_FallbackJanuary ==
    /\ view.page = "cost"
    /\ Len(projects) = 1
    /\ projects[1].line = "other"
    /\ projects[1].delivery.month = 1
    /\ projects[1].delivery.day = 31
    /\ projects[1].corrected = 3333
    /\ Len(view.material) = 1
    /\ view.material[1].amount = 1000
    /\ view.material[1].month = MonthKey(Date(projects[1].delivery.year - 1, 12, 1))

\* C17: the ratio-sum check of generate_cash_flow_data is advisory.  On the
\* cash-flow page a project is warned about exactly when its three ratios
\* deviate from 100 by more than 0.1, and every project, warned or not, has
\* its three events in the table, each computed with the ratio given
C17_RatioWarningAdvisory ==
    (view.page = "cash_flow" /\ projects # <<>>) =>
        /\ view.warnings =
              {i \in 1..Len(projects) :
                  10 * Abs(projects[i].first + projects[i].second
                              + projects[i].final - 100) > 1}
        /\ Len(view.cash_flow) = 3 * Len(projects)
        /\ \A i \in 1..Len(projects) :
              LET p == projects[i]
                  e == SubSeq(view.cash_flow, 3 * i - 2, 3 * i)
              IN  /\ e[1].kind = "first_payment" /\ e[1].ratio = p.first
                  /\ e[2].kind = "second_payment" /\ e[2].ratio = p.second
                  /\ e[3].kind = "warranty_payment" /\ e[3].ratio = p.final
                  /\ \A k \in 1..3 :
                        /\ e[k].name = p.name
                        /\ Nearest(e[k].amount, p.corrected * e[k].ratio, 100)

\* an imported project with the ratios 60/40/10 (sum 110) is warned about
\* and has its three events at 60%, 40% and 10% of the corrected revenue
C17_WarnedAndEmitted ==
    /\ view.page = "cash_flow"
    /\ Len(projects) = 1
    /\ <<projects[1].first, projects[1].second, projects[1].final>> = <<60, 40, 10>>
    /\ projects[1].corrected > 1000
    /\ view.warnings = {1}
    /\ Len(view.cash_flow) = 3
    /\ view.cash_flow[1].amount + view.cash_flow[2].amount
          + view.cash_flow[3].amount > projects[1].corrected

\* the rows of a labor record with start <= end are one per calendar month
\* from the month of start to the month of end, in ascending order, and no
\* allocation is negative or above the monthly rate
LaborMonthCoverage ==
    (view.page = "cost" /\ labor # <<>> /\ DateLE(labor[1].start, labor[1].end)) =>
        LET r    == labor[1]
            rows == view.labor_monthly
            n    == MonthIndex(r.end) - MonthIndex(r.start) + 1
        IN  /\ Len(rows) = n
            /\ \A i \in 1..n :
                  /\ rows[i].month = KeyOfIndex(MonthIndex(r.start) + i - 1)
                  /\ rows[i].amount >= 0
                  /\ rows[i].amount <= r.monthly_cost

\* C19: labor expansion month coverage.  For every labor record with
\* start <= end the expansion has exactly one row for each calendar month
\* overlapped by [start, end], none for another month, in ascending month
\* order, and every allocation a satisfies 0 < a <= M
C19_LaborCoverageAndRange ==
    (view.page = "cost" /\ labor # <<>> /\ DateLE(labor[1].start, labor[1].end)) =>
        LET r    == labor[1]
            rows == view.labor_monthly
            n    == MonthIndex(r.end) - MonthIndex(r.start) + 1
        IN  /\ Len(rows) = n
            /\ \A i \in 1..n :
                  /\ rows[i].month = KeyOfIndex(MonthIndex(r.start) + i - 1)
                  /\ 0 < rows[i].amount
                  /\ rows[i].amount <= r.monthly_cost

--------------------------------------------------------------------------
(* Rounding (snapshot specification)                                       *)

\* days_for_cost of a labor record in the calendar month of `first` (its
\* first day): 0 outside the loop's months
LaborDaysFor(r, first) ==
    IF DateLE(ReplaceDay1(r.start), first) /\ DateLE(first, r.end)
    THEN IF MonthIndex(r.end) = MonthIndex(first) THEN r.end.day
         ELSE DaysInMonth(first.year, first.month)
    ELSE 0

RECURSIVE LaborCostTimesDays(_, _)
\* the sum over the labor records of monthly cost * days_for_cost in the
\* month of `first`: the unrounded allocations of that month, times the
\* number of days of the month
LaborCostTimesDays(rows, first) ==
    IF rows = <<>> THEN 0
    ELSE rows[1].monthly_cost * LaborDaysFor(rows[1], first)
            + LaborCostTimesDays(Tail(rows), first)

\* C16: rounding only at presentation.  Amounts are accumulated unrounded
\* and rounded to two decimals when presented: in every row of the ledger
\* the labor figure is round2 of the sum of the exact allocations
\* M * days_for_cost / days_in_month of the labor records in that month, not
\* the sum of the allocations rounded one by one
C16_LedgerLaborRoundedOnce ==
    view.budget_shown =>
        \A i \in 1..Len(view.budget_summary) :
            LET r     == view.budget_summary[i]
                first == ParseMonthKey(r.month)
            IN  r.labor = Round2(LaborCostTimesDays(labor, first),
                                 DaysInMonth(first.year, first.month))

\* C14: the runway's input is the ledger.  Whenever the runway is shown, its
\* months are the months of the monthly ledger of the same snapshot, in the
\* same order, and the net cash flow of every month is the ledger's total
\* revenue minus total expense of that month
C14_RunwayNetIsLedgerNet ==
    view.runway_shown =>
        LET ledger == BudgetSummary(IncomeMaterialRatios)
            runway == view.monthly_summary
        IN  /\ Len(runway) = Len(ledger)
            /\ \A i \in 1..Len(runway) :
                  /\ runway[i].month = ledger[i].month
                  /\ runway[i].net
                        = ledger[i].total_revenue - ledger[i].total_expense

\* the cost series of the runway are the ledger's: every month of the
\* ledger is a month of the runway with the same material, labor, admin and
\* occasional figures
RunwayCostsAreLedgerCosts ==
    view.runway_shown =>
        LET ledger == BudgetSummary(IncomeMaterialRatios)
            runway == view.monthly_summary
        IN  \A i \in 1..Len(ledger) :
                \E j \in 1..Len(runway) :
                    /\ runway[j].month = ledger[i].month
                    /\ runway[j].material = ledger[i].material
                    /\ runway[j].labor = ledger[i].labor
                    /\ runway[j].admin = ledger[i].admin
                    /\ runway[j].occasional_income = ledger[i].occasional_income
                    /\ runway[j].occasional_expense = ledger[i].occasional_expense

--------------------------------------------------------------------------
(* Properties of the project lifecycle (lifecycle specification)           *)

\* C18: a ratio-sum violation is never a rejection.  No path that creates or
\* edits a project (manual add, file import, table edit) ends in the error
\* that refuses a project because its three payment ratios do not total
\* 100: such a project is stored, with at most a warning
C18_RatioSumNeverRejects ==
    /\ view.error # "ratio"
    /\ view.rejected => view.error = "name"

\* import and table edit store projects whose ratios do not total 100: an
\* imported project with 60/40/10 beside an edited one with 60/30/30
RatioViolationsStored ==
    /\ Len(projects) = 2
    /\ \A i \in 1..2 : projects[i].first + projects[i].second + projects[i].final # 100
    /\ view.page = "income"
    /\ view.warnings # {}
    /\ ~view.rejected

\* e^(-0.05 t) in millionths, t = 0..48
DecayTableAt500 ==
    <<1000000, 951229, 904837, 860708, 818731, 778801, 740818, 704688, 670320,
      637628, 606531, 576950, 548812, 522046, 496585, 472367, 449329, 427415,
      406570, 386741, 367879, 349938, 332871, 316637, 301194, 286505, 272532,
      259240, 246597, 234570, 223130, 212248, 201897, 192050, 182684, 173774,
      165299, 157237, 149569, 142274, 135335, 128735, 122456, 116484, 110803,
      105399, 100259, 95369, 90718>>

\* e^(-lambda t) in millionths for the coefficients the configuration page
\* is given here (lambda in ten-thousandths)
ConfiguredDecay(lambda, t) ==
    IF lambda = DefaultDecayLambda THEN DecayTable[t + 1] ELSE DecayTableAt500[t + 1]

\* C20: the configured decay parameters are used.  Every project that an
\* intake (manual add or import) appends has the month difference of its
\* delivery date from the base date set in the configuration, the decay
\* factor e^(-lambda t) for the configured coefficient lambda, and the
\* expected revenue contract * close rate * that factor
C20_ConfiguredDecayUsed ==
    [][\A i \in 1..Len(projects') :
          i > Len(projects) =>
              LET p == projects'[i]
                  t == MonthDiff(p.delivery, base_date)
                  d == ConfiguredDecay(decay_lambda, t)
              IN  /\ p.month_diff = t
                  /\ Nearest(p.time_decay, d, 100)
                  /\ Abs(100000 * p.expected - TimesDecay(p.contract * p.close_rate, d))
                        <= 50001]_vars

\* with the configuration left at its defaults (lambda 0.0315, base date
\* 2025-12-08) every appended project has the decay of the configuration
DefaultDecayUsed ==
    [][(decay_lambda = DefaultDecayLambda /\ base_date = BaseDate) =>
          \A i \in 1..Len(projects') :
              i > Len(projects) =>
                  LET p == projects'[i]
                      t == MonthDiff(p.delivery, base_date)
                  IN  /\ p.month_diff = t
                      /\ Nearest(p.time_decay, ConfiguredDecay(decay_lambda, t), 100)]_vars

\* C12: corrected revenue is a one-way default.  In every state, a project
\* for which the user has entered a corrected revenue (at the add form or in
\* the table) holds the value last entered for it, whatever edits, deletes,
\* intakes of other projects and configuration changes came after; a
\* project for which none was entered holds its expected revenue
C12_CorrectedOneWayDefault ==
    \A i \in 1..Len(projects) :
        LET p == projects[i]
        IN  IF p.id \in DOMAIN manual_corrected
            THEN p.corrected = manual_corrected[p.id]
            ELSE p.corrected = p.expected

\* the entered values are kept: a project with an entered corrected revenue
\* holds the last one, and an imported project without one holds its
\* expected revenue
EnteredValueKept ==
    \A i \in 1..Len(projects) :
        LET p == projects[i]
        IN  /\ p.id \in DOMAIN manual_corrected => p.corrected = manual_corrected[p.id]
            /\ (p.id \notin DOMAIN manual_corrected /\ p.name = "B") =>
                  p.corrected = p.expected

\* an edited project beside an imported one, after a configuration change
EnteredValueSurvives ==
    /\ Len(projects) = 2
    /\ projects[1].name = "B" /\ projects[1].id \notin DOMAIN manual_corrected
    /\ projects[2].name = "A" /\ projects[2].id \in DOMAIN manual_corrected
    /\ projects[2].corrected = 7000
    /\ decay_lambda # DefaultDecayLambda

--------------------------------------------------------------------------
(* Determinism (configuration specification)                               *)

\* the snapshot and the configuration the pipeline is computed from
SnapshotAndConfiguration ==
    <<projects, labor, admin, occasional_income, occasional_expense,
      material_ratios, current_cash_balance, decay_lambda, base_date>>

\* the ledger and the runway table computed from the snapshot by an income
\* manager that holds the given material ratio table
LedgerAndRunway(table) ==
    <<BudgetSummary(table),
      RunwaySummary(generate_cash_flow_data(projects), table, current_cash_balance)>>

\* C15: idempotence.  Across any step that leaves the snapshot and the
\* configuration unchanged (a page run with its derived computations,
\* generate_summary included, or a recomputation), the ledger and the runway
\* computed from the state after the step are those computed before it.
\* (The snapshot being unchanged, the two computations can differ only in
\* the table the income manager holds.)
C15_RecomputeIdentical ==
    [][(projects # <<>> /\ SnapshotAndConfiguration' = SnapshotAndConfiguration)
          => LedgerAndRunway(IncomeMaterialRatios') = LedgerAndRunway(IncomeMaterialRatios)]_vars

\* C21: material ratios are read from the current configuration.  Whenever
\* the cost page shows the material costs, every row carries the ratio that
\* st.session_state.material_ratios holds for the project's business line
\* at that moment (0.30 for a line outside the table) and the amount
\* computed with it, whether or not a refresh followed the last edit
C21_MaterialUsesConfiguredRatios ==
    view.page = "cost" =>
        /\ Len(view.material) = Len(projects)
        /\ \A i \in 1..Len(projects) :
              LET p == projects[i]
                  ratio == IF p.line \in DOMAIN material_ratios
                           THEN material_ratios[p.line] ELSE 300
              IN  /\ view.material[i].ratio = ratio
                  /\ Nearest(view.material[i].amount, p.corrected * ratio, 1000)

\* after a refresh the configured ratios are the ones in use
MaterialUsesConfiguredRatiosAfterRefresh ==
    (view.page = "cost" /\ income_aliased) =>
        \A i \in 1..Len(projects) :
            LET p == projects[i]
                ratio == IF p.line \in DOMAIN material_ratios
                         THEN material_ratios[p.line] ELSE 300
            IN  /\ view.material[i].ratio = ratio
                /\ Nearest(view.material[i].amount, p.corrected * ratio, 1000)

--------------------------------------------------------------------------
(* Validation of cost records (single-record cost specification)           *)

\* C22: invalid records are rejected at construction.  No labor or admin
\* cost record whose end date is before its start date is ever in the
\* stored collections, and so none reaches the expansion shown on the cost
\* page
C22_NoReversedInterval ==
    /\ \A i \in 1..Len(labor) : DateLE(labor[i].start, labor[i].end)
    /\ \A i \in 1..Len(admin) : DateLE(admin[i].start, admin[i].end)
    /\ view.page = "cost" =>
          /\ \A i \in 1..Len(view.labor_monthly) :
                DateLE(view.labor_monthly[i].start, view.labor_monthly[i].end)

\* the decay coefficient of the configuration is never below the minimum
\* 0.01 of its input
DecayCoefficientPositive == decay_lambda >= 100

--------------------------------------------------------------------------
(* Degenerate denominators (configuration specification)                   *)

\* C23: zero-denominator guard.  Every margin and share a page shows is a
\* defined number, and it is 0 when its denominator is 0: the gross margin
\* of each ledger month (denominator: total revenue of the month), the
\* average margin (total revenue of the ledger) and the share of each
\* payment kind in the cash flow (total of the cash flow)
C23_ZeroDenominatorGuard ==
    /\ view.budget_shown =>
          /\ \A i \in 1..Len(view.budget_summary) :
                LET r == view.budget_summary[i]
                IN  /\ r.gross_margin.den # 0
                    /\ r.total_revenue = 0 => r.gross_margin.num = 0
          /\ view.avg_margin.den # 0
    /\ view.page = "cash_flow" =>
          \A i \in 1..Len(view.cash_flow_summary) :
              LET r == view.cash_flow_summary[i]
              IN  /\ r.share.den # 0
                  /\ KindSum(view.cash_flow, r.kind) = 0 => r.share.num = 0

\* the guarded margins: the ledger part of the claim
LedgerMarginsGuarded ==
    view.budget_shown =>
        /\ \A i \in 1..Len(view.budget_summary) :
              LET r == view.budget_summary[i]
              IN  /\ r.gross_margin.den # 0
                  /\ r.total_revenue = 0 => r.gross_margin.num = 0
        /\ view.avg_margin.den # 0

\* a ledger whose total revenue is 0 is shown with average margin 0
LedgerWithoutRevenue ==
    /\ view.budget_shown
    /\ view.budget_summary # <<>>
    /\ \A i \in 1..Len(view.budget_summary) : view.budget_summary[i].total_revenue = 0
    /\ \E i \in 1..Len(view.budget_summary) : view.budget_summary[i].total_expense > 0
    /\ view.avg_margin = [num |-> 0, den |-> 1]

--------------------------------------------------------------------------
(* Month keys and row order                                                *)

\* C24: ledger row order.  The rows of the monthly ledger are in strictly
\* increasing chronological order of their months, the month of a row being
\* its key parsed back to a date; so no month key has two rows
C24_LedgerChronological ==
    view.budget_shown =>
        \A i \in 1..Len(view.budget_summary), j \in 1..Len(view.budget_summary) :
            i < j => MonthIndex(ParseMonthKey(view.budget_summary[i].month))
                        < MonthIndex(ParseMonthKey(view.budget_summary[j].month))

\* a ledger of at least four months that runs from one year into the next
C24_LedgerAcrossYears ==
    /\ view.budget_shown
    /\ Len(view.budget_summary) >= 4
    /\ ParseMonthKey(view.budget_summary[1].month).year = 2025
    /\ ParseMonthKey(view.budget_summary[Len(view.budget_summary)].month).year = 2026
    /\ \E i \in 1..(Len(view.budget_summary) - 1) :
          /\ ParseMonthKey(view.budget_summary[i].month).month = 12
          /\ ParseMonthKey(view.budget_summary[i + 1].month).month = 1

\* the month keys of a table
MonthsOf(rows) == {rows[i].month : i \in 1..Len(rows)}

\* every month key in the stored projects and in the tables of the page
\* shown: delivery months, cash-flow payment months, material, labor and
\* admin months, and the months of the runway and the ledger (which take in
\* the months of the occasional entries)
ShownMonthKeys ==
    {projects[i].delivery_month : i \in 1..Len(projects)}
        \cup MonthsOf(view.cash_flow) \cup MonthsOf(view.material)
        \cup MonthsOf(view.labor_monthly) \cup MonthsOf(view.admin_monthly)
        \cup MonthsOf(view.monthly_summary) \cup MonthsOf(view.budget_summary)

\* 'YYYY-MM': four digits, a dash, two digits that name a month
IsMonthKey(k) ==
    /\ Len(k) = 7
    /\ k[5] = CharDash
    /\ \A i \in {1, 2, 3, 4, 6, 7} : k[i] \in Char0..(Char0 + 9)
    /\ DigitsValue(SubSeq(k, 6, 7)) \in 1..12

\* C25: month-key format.  Every month key produced is a 'YYYY-MM' string
\* with a zero-padded month, so the lexical order of any two keys is their
\* chronological order; in particular the runway rows, ordered by string
\* sort only, are in chronological order
C25_MonthKeyFormat ==
    /\ \A k \in ShownMonthKeys : IsMonthKey(k)
    /\ \A a \in ShownMonthKeys, b \in ShownMonthKeys :
          LexLess(a, b) <=> MonthIndex(ParseMonthKey(a)) < MonthIndex(ParseMonthKey(b))
    /\ \A i \in 1..(Len(view.monthly_summary) - 1) :
          MonthIndex(ParseMonthKey(view.monthly_summary[i].month))
              < MonthIndex(ParseMonthKey(view.monthly_summary[i + 1].month))

\* a runway with a one-digit month before a two-digit month of the same
\* year, where the padding decides the string order
C25_PaddingDecides ==
    /\ view.runway_shown
    /\ \E i \in 1..Len(view.monthly_summary), j \in 1..Len(view.monthly_summary) :
          LET a == ParseMonthKey(view.monthly_summary[i].month)
              b == ParseMonthKey(view.monthly_summary[j].month)
          IN  /\ i < j
              /\ a.year = b.year
              /\ a.month < 10
              /\ b.month >= 10

--------------------------------------------------------------------------
(* The project table (project table specification)                         *)

\* C26: project ids are unique.  After any sequence of manual adds, file
\* imports (with or without an ID column, possibly repeating ids already
\* stored), edits and deletes, no two stored projects have the same id
C26_ProjectIdsUnique ==
    \A i \in 1..Len(projects), j \in 1..Len(projects) :
        i # j => projects[i].id # projects[j].id

\* ids the application gives are unique: the rows that were added by hand
\* or imported with a blank ID cell never share an id with another row
GivenIdsUnique ==
    \A i \in 1..Len(projects), j \in 1..Len(projects) :
        (i # j /\ projects[i].name \in {"A", "C"}) => projects[i].id # projects[j].id

\* C27: delete by id.  A delete of the rows ticked in the displayed table,
\* whatever filter and sort the table was displayed with, removes from the
\* stored projects exactly those whose id is among the ticked rows' ids and
\* leaves every other project, with all its fields, as it was and in its
\* place
C27_DeleteById ==
    [][view'.ids_to_delete # {} =>
          /\ projects' = SelectSeq(projects, LAMBDA p : p.id \notin view'.ids_to_delete)
          /\ view'.ids_to_delete \subseteq Ids(projects)
          /\ Ids(projects') = Ids(projects) \ view'.ids_to_delete]_vars

\* a delete that took some of the stored projects and left others
C27_DeletedSome ==
    /\ view.ids_to_delete # {}
    /\ projects # <<>>
    /\ Ids(projects) \cap view.ids_to_delete = {}

\* the editable columns of the project table
EditableFields == {"corrected", "first", "second", "final"}

\* C29: edit by id changes only the editable fields.  A write-back of an
\* edited table leaves the number and order of the stored projects as they
\* were, changes no field of any project other than its corrected revenue
\* and its three payment ratios, changes nothing of a project whose id
\* does not occur in the edited table, and adds nothing for an edited row
\* whose id matches no stored project
C29_EditOnlyEditableFields ==
    [][view'.edited # <<>> =>
          /\ Len(projects') = Len(projects)
          /\ \A i \in 1..Len(projects) :
                /\ \A f \in DOMAIN projects[i] \ EditableFields :
                      projects'[i][f] = projects[i][f]
                /\ projects[i].id \notin Ids(view'.edited) =>
                      projects'[i] = projects[i]]_vars

\* an edit under a filter, with a row added in the editor: a stored project
\* is outside the edited table, a stored project holds an edited value, and
\* the added row (no id) is in the edited table but not stored
C29_EditedUnderFilter ==
    /\ view.edited # <<>>
    /\ 0 \in Ids(view.edited)
    /\ 0 \notin Ids(projects)
    /\ \E i \in 1..Len(projects) : projects[i].id \notin Ids(view.edited)
    /\ \E i \in 1..Len(projects) :
          /\ projects[i].id \in Ids(view.edited)
          /\ projects[i].corrected = 7000

--------------------------------------------------------------------------
(* Derived computations and their inputs                                   *)

\* C28: derived computations do not mutate their input.  The stored
\* collections hold what the intake, edit and delete handlers wrote and
\* nothing else: no stored project carries the 季度 column, which only
\* generate_summary computes, and the labor, admin and occasional
\* collections hold the records as entered
C28_DerivedLeavesInput ==
    \A i \in 1..Len(projects) : projects[i].quarter = <<>>

\* the cost, cash-flow, runway and ledger computations leave every
\* collection as it was: a step that only renders one of their pages
\* changes no stored record
OtherGeneratorsLeaveInput ==
    [][(view'.page \in {"cash_flow", "budget"}
            /\ current_cash_balance' = current_cash_balance)
          => data_vars' = data_vars]_vars

--------------------------------------------------------------------------
(* The ledger builders (report specification)                              *)

\* the columns the ledger builders have in common
LedgerTotals(summary) ==
    [i \in 1..Len(summary) |->
        [month |-> summary[i].month,
         total_revenue |-> summary[i].total_revenue,
         total_expense |-> summary[i].total_expense,
         gross_profit |-> summary[i].gross_profit,
         gross_margin |-> summary[i].gross_margin]]

\* C30: the ledger builders agree.  For one snapshot, the monthly ledger
\* under the charts of the overview report (create_executive_dashboard_charts,
\* whose statements are those of create_visualization_charts) has the same
\* months and, in every month, the same total revenue, total expense, gross
\* profit and gross margin as the ledger of the page 全面预算汇总
C30_LedgerBuildersAgree ==
    view.dashboard_shown =>
        LedgerTotals(view.dashboard_summary) = LedgerTotals(view.budget_summary)

\* without occasional entries the builders agree
BuildersAgreeWithoutOccasional ==
    (view.dashboard_shown /\ occasional_income = <<>> /\ occasional_expense = <<>>) =>
        LedgerTotals(view.dashboard_summary) = LedgerTotals(view.budget_summary)

==========================================================================
